---- MODULE Spec2Model ----
(***************************************************************************)
(* The secure echo channel of apr15/secure_conn.go: Dial, Serve, serve,    *)
(* serverHandshake, clientHandshake and receiveKey, over a model of the    *)
(* net.Conn byte streams they run on.                                      *)
(*                                                                         *)
(* A connection c carries two ordered byte queues, c2s[c] (client to       *)
(* server) and s2c[c] (server to client).  A byte is a natural number: the *)
(* fixed strings are their ASCII codes, and the bytes of a generated key   *)
(* are symbolic values above the byte range (a fresh random key shares no  *)
(* byte with a fixed string or with another key).                          *)
(***************************************************************************)
EXTENDS Integers, Sequences, FiniteSets, TLC

\* ------------------------------------------------------------ bounds
\* Connections that dial the listener, numbered in the order they connect.
MaxConns == 2
\* Messages an established client writes on its channel.
MaxMsgs == 2

Conns == 1..MaxConns

\* --------------------------------------------------- program constants
\* var protocolHandshake = []byte("whispering gophers 1")
protocolHandshake ==
  <<119, 104, 105, 115, 112, 101, 114, 105, 110, 103, 32,
    103, 111, 112, 104, 101, 114, 115, 32, 49>>

\* var badHandshakeResponse = []byte("you shall not pass!")
badHandshakeResponse ==
  <<121, 111, 117, 32, 115, 104, 97, 108, 108, 32,
    110, 111, 116, 32, 112, 97, 115, 115, 33>>

\* key := [32]byte{}
KeyLen == 32

\* ErrBadHandshake = errors.New("bad client/server handshake")
ErrBadHandshake == "ErrBadHandshake"

\* ------------------------------------------------------------ helpers
Min(a, b) == IF a <= b THEN a ELSE b

Take(s, k) == SubSeq(s, 1, k)

Drop(s, k) == SubSeq(s, k + 1, Len(s))

IsPrefix(s, t) == Len(s) <= Len(t) /\ Take(t, Len(s)) = s

\* The 32 bytes of the public key of key pair id (id >= 1).
PubKey(id) == [i \in 1..KeyLen |-> 1000 * id + i]

\* box.GenerateKey(rand.Reader) on the server side of connection c: the key
\* pair is fresh, named by the call that made it.
ServerKeyId(c) == 2 * c

\* box.GenerateKey(rand.Reader) on the client side of connection c.
ClientKeyId(c) == 2 * c - 1

\* The buffer serverHandshake reads the token into: make([]byte, len(token)).
ZeroBuf(n) == [i \in 1..n |-> 0]

\* buf after a Read that stored the bytes got at its start.
Filled(buf, got) == [i \in 1..Len(buf) |-> IF i <= Len(got) THEN got[i] ELSE buf[i]]

\* ---------------------------------------------------------- transport
\* One call of net.Conn.Read into a buffer of n bytes, on a queue q whose
\* writing end is closed when ended holds and whose connection is reset when
\* brk holds: the results it can give, none when it blocks.  A single Read
\* returns as soon as some bytes are there, any number of them from 1 up.
ConnRead(q, n, ended, brk) ==
  IF Len(q) > 0 THEN {[n |-> k, err |-> "nil"] : k \in 1..Min(n, Len(q))}
  ELSE IF brk THEN {[n |-> 0, err |-> "transport"]}
  ELSE IF ended THEN {[n |-> 0, err |-> "EOF"]}
  ELSE {}

\* io.ReadFull(r, buf) with len(buf) = n: reads until n bytes are there; EOF
\* when the stream ends with none read, ErrUnexpectedEOF when it ends with
\* some but not all read.
ReadFull(q, n, ended, brk) ==
  IF Len(q) >= n THEN {[n |-> n, err |-> "nil"]}
  ELSE IF brk THEN {[n |-> Len(q), err |-> "transport"]}
  ELSE IF ended THEN {[n |-> Len(q), err |-> IF Len(q) = 0 THEN "EOF" ELSE "ErrUnexpectedEOF"]}
  ELSE {}

\* Where a failing write of n bytes can stop: the bytes delivered before it.
FailCuts(n) == {k \in 0..(n - 1) : k <= 1 \/ k = n - 1}

\* A write of data in full on a connection: the outcomes.  out: the bytes the
\* writer put on the wire; del: those of them that reach the peer's queue;
\* brk: whether the connection is reset afterwards.  A write on a reset
\* connection fails; a write to a peer that closed its end either fails or is
\* taken and dropped; a write that fails part-way resets the connection; and
\* a write can be taken (it returns no error) and lost with a connection
\* that is reset before the bytes reach the peer.
ConnWrite(data, peerClosed, brk) ==
  IF brk THEN {[out |-> <<>>, del |-> <<>>, err |-> "transport", brk |-> TRUE]}
  ELSE IF peerClosed
    THEN {[out |-> <<>>, del |-> <<>>, err |-> "transport", brk |-> FALSE],
          [out |-> data, del |-> <<>>, err |-> "nil", brk |-> FALSE]}
  ELSE {[out |-> data, del |-> data, err |-> "nil", brk |-> FALSE],
        [out |-> data, del |-> <<>>, err |-> "nil", brk |-> TRUE]}
       \cup {[out |-> Take(data, k), del |-> Take(data, k),
              err |-> "transport", brk |-> TRUE] : k \in FailCuts(Len(data))}

\* -------------------------------------------------------------- state
VARIABLES
  lst,        \* the listener: "open" or "closed"
  servePc,    \* Serve: "accept" (in its loop) or "returned"
  serveErr,   \* what Serve returned
  acceptErr,  \* the error of the last l.Accept ("nil": none)
  ckind,      \* the peer on connection c: "none", "dial" (Dial) or "raw"
  cpc,        \* where the client side of c is
  cerr,       \* the error clientHandshake returned to Dial
  dialRet,    \* what Dial returned: "none" yet, "chan", or the error (nil channel)
  spc,        \* where the handler serve(conn) of c is
  serr,       \* the error serverHandshake returned to serve
  c2s,        \* bytes written by the client, not yet read by the server
  s2c,        \* bytes written by the server, not yet read by the client
  cOut,       \* all bytes the client put on the wire
  sOut,       \* all bytes the server put on the wire
  cClosed,    \* the client closed its end
  sClosed,    \* the server closed its end
  broken,     \* the connection was reset
  cKey,       \* the key pair the client generated (0: none)
  cPeer,      \* the server public key the client holds (<<>>: none)
  sKey,       \* the key pair the server generated (0: none)
  sPeer,      \* the client public key the server holds (<<>>: none)
  sFailAt,    \* the step at which serverHandshake failed ("none": it has not)
  sBuf,       \* the plaintext serve read and has yet to echo (<<>>: none)
  sReadLog,   \* the plaintexts serve read, in order
  sWriteLog,  \* the plaintexts serve wrote back, in order
  cSent,      \* how many messages the client wrote on its channel
  cGot,       \* the plaintexts the client read from its channel, in order
  rGot,       \* the bytes a raw peer read from the connection, in order
  peers,      \* the connections that peers make to the listener
  faulty,     \* the network can reset connections, fail and split writes
  quota,      \* how many messages a client writes on its channel at most
  pKind,      \* the stream under a SecureWriter/SecureReader pair of the
              \* tests: "pipe" (io.Pipe), "buffer" (bytes.Buffer), "none"
  pq,         \* the bytes in that stream, written and not yet read
  pClosed,    \* whether the writing end of that stream is closed
  pNonces,    \* how many nonces the writers on that stream have drawn
  pWrites,    \* the Write calls on it: writer, plaintext, result, bytes sent
  pReads,     \* the Read calls on it: the stream before, the result
  pTaken,     \* how many frames the reader has read whole
  pHarm,      \* what the test did to the stream: "none", "flip", "cut"
  fGot,       \* the bytes a stand-in server of the tests read from c, in order
  dFile,      \* the file at the path DecodeFile is called with
  dpc,        \* where DecodeFile is: "idle" when it is not called
  dHdr,       \* what readHeader returned: the pattern, the data length
  dRet        \* what DecodeFile returned: the pattern and the error

pipeVars == <<pKind, pq, pClosed, pNonces, pWrites, pReads, pTaken, pHarm>>
decVars == <<dFile, dpc, dHdr, dRet>>
otherVars == <<pipeVars, fGot, decVars>>
listenerVars == <<lst, servePc, serveErr, acceptErr, peers, faulty, quota, otherVars>>
clientVars == <<ckind, cpc, cerr, dialRet, cKey, cPeer, cSent, cGot, rGot>>
serverVars == <<spc, serr, sKey, sPeer, sFailAt, sBuf, sReadLog, sWriteLog>>
wireVars == <<c2s, s2c, cOut, sOut, cClosed, sClosed, broken>>
vars == <<listenerVars, clientVars, serverVars, wireVars>>

InitState ==
  /\ lst = "open"
  /\ servePc = "accept"
  /\ serveErr = "nil"
  /\ acceptErr = "nil"
  /\ ckind = [c \in Conns |-> "none"]
  /\ cpc = [c \in Conns |-> "c_idle"]
  /\ cerr = [c \in Conns |-> "nil"]
  /\ dialRet = [c \in Conns |-> "none"]
  /\ spc = [c \in Conns |-> "s_none"]
  /\ serr = [c \in Conns |-> "nil"]
  /\ c2s = [c \in Conns |-> <<>>]
  /\ s2c = [c \in Conns |-> <<>>]
  /\ cOut = [c \in Conns |-> <<>>]
  /\ sOut = [c \in Conns |-> <<>>]
  /\ cClosed = [c \in Conns |-> FALSE]
  /\ sClosed = [c \in Conns |-> FALSE]
  /\ broken = [c \in Conns |-> FALSE]
  /\ cKey = [c \in Conns |-> 0]
  /\ cPeer = [c \in Conns |-> <<>>]
  /\ sKey = [c \in Conns |-> 0]
  /\ sPeer = [c \in Conns |-> <<>>]
  /\ sFailAt = [c \in Conns |-> "none"]
  /\ sBuf = [c \in Conns |-> <<>>]
  /\ sReadLog = [c \in Conns |-> <<>>]
  /\ sWriteLog = [c \in Conns |-> <<>>]
  /\ cSent = [c \in Conns |-> 0]
  /\ cGot = [c \in Conns |-> <<>>]
  /\ rGot = [c \in Conns |-> <<>>]
  /\ fGot = [c \in Conns |-> <<>>]

\* One peer and the server, on a network that can fail.
NoPipe ==
  /\ pKind = "none" /\ pq = <<>> /\ pClosed = FALSE /\ pNonces = 0
  /\ pWrites = <<>> /\ pReads = <<>> /\ pTaken = 0 /\ pHarm = "none"

\* DecodeFile is not called.
NoFile == [opens |-> FALSE, stats |-> FALSE, bytes |-> <<>>]

\* A *Pattern is the sequence of the pattern it points to: none when nil.
NoHeader == [p |-> <<>>, datalen |-> 0]

NoReturn == [p |-> <<>>, err |-> "none"]

NoDecode == dFile = NoFile /\ dpc = "idle" /\ dHdr = NoHeader /\ dRet = NoReturn

Init == InitState /\ NoPipe /\ NoDecode /\ peers = {1} /\ faulty = TRUE /\ quota = MaxMsgs

\* Several peers and the server, on a network that does not fail: what fails
\* there is what the peers make fail.  Each client writes one message.
InitServe == InitState /\ NoPipe /\ NoDecode /\ peers = Conns /\ faulty = FALSE /\ quota = 1

\* What a read and a write can do on the network of this run: on a network
\* that does not fail, a read gives all that is there (up to its buffer) and a
\* write is not cut short by a reset.
Reads(q, n, ended, brk) ==
  {r \in ConnRead(q, n, ended, brk) :
     faulty \/ r.err # "nil" \/ r.n = Min(n, Len(q))}

Writes(data, peerClosed, brk) ==
  {w \in ConnWrite(data, peerClosed, brk) : faulty \/ w.brk = brk}

\* box.GenerateKey(rand.Reader) can fail when the random source does.
RandFails == faulty

\* ------------------------------------------------- the peers' inputs
\* What a peer that does not speak the protocol writes after connecting:
\* the plaintext of the tests, two proper prefixes of the token, the token
\* with its last byte changed, and the token followed by a newline.
HelloWorld == <<104, 101, 108, 108, 111, 32, 119, 111, 114, 108, 100, 10>>

RawMsgs ==
  { HelloWorld,
    Take(protocolHandshake, 5),
    Take(protocolHandshake, Len(protocolHandshake) - 1),
    [protocolHandshake EXCEPT ![Len(protocolHandshake)] = 50],
    protocolHandshake \o <<10>> }

\* The errors a listener can fail with.
ListenerErrs == {"closed", "acceptFault"}

\* ------------------------------------------------------------ listener
\* The listener fails: it is closed (the tests' l.Close()) or breaks.  The
\* connections still waiting to be accepted are reset.
CloseListener(e) ==
  /\ lst = "open"
  /\ lst' = e
  /\ broken' = [c \in Conns |->
                  broken[c] \/ (ckind[c] # "none" /\ spc[c] = "s_none")]
  /\ UNCHANGED <<servePc, serveErr, acceptErr, peers, faulty, quota, otherVars, clientVars, serverVars,
                 c2s, s2c, cOut, sOut, cClosed, sClosed>>

\* A side of c waits in a read for bytes that are not there.
ServerWaits(c) ==
  \/ spc[c] = "s_token" /\ c2s[c] = <<>>
  \/ spc[c] = "s_recvKey" /\ Len(c2s[c]) < KeyLen
  \/ spc[c] = "s_read" /\ c2s[c] = <<>>

ClientWaits(c) ==
  \/ cpc[c] = "c_recvKey" /\ Len(s2c[c]) < KeyLen
  \/ cpc[c] = "c_open" /\ Len(cGot[c]) < cSent[c] /\ s2c[c] = <<>>
  \/ cpc[c] = "r_read" /\ s2c[c] = <<>>

\* The network resets a connection while a side waits in a read (a reset at
\* another time shows as the failure of the next write).
Break(c) ==
  /\ faulty
  /\ ~broken[c]
  /\ ServerWaits(c) \/ ClientWaits(c)
  /\ broken' = [broken EXCEPT ![c] = TRUE]
  /\ UNCHANGED <<listenerVars, clientVars, serverVars,
                 c2s, s2c, cOut, sOut, cClosed, sClosed>>

\* --------------------------------------------------------------- Dial
\* receiveKey's switch on the error of io.ReadFull (lines 171-178).
ReceiveKeyErr(e) ==
  IF e \in {"EOF", "ErrUnexpectedEOF"} THEN "ErrUnexpectedEOF" ELSE e

\* A receiveKey that accepts what one Read gives, the rest of the key zero.
ReceiveKeyOneRead(q, ended, brk) ==
  {[n |-> r.n, err |-> ReceiveKeyErr(r.err),
    key |-> IF r.err = "nil" THEN Filled(ZeroBuf(KeyLen), Take(q, r.n)) ELSE <<>>] :
     r \in ConnRead(q, KeyLen, ended, brk)}

\* A receiveKey that reads the 32 bytes and returns a key it did not fill.
ReceiveKeyUnfilled(q, ended, brk) ==
  {[n |-> r.n, err |-> ReceiveKeyErr(r.err),
    key |-> IF r.err = "nil" THEN ZeroBuf(KeyLen) ELSE <<>>] :
     r \in ReadFull(q, KeyLen, ended, brk)}

\* receiveKey (lines 169-181) on the queue q: io.ReadFull of 32 bytes into
\* the key; n: the bytes consumed.
ReceiveKey(q, ended, brk) ==
  {[n |-> r.n, err |-> ReceiveKeyErr(r.err),
    key |-> IF r.err = "nil" THEN Take(q, KeyLen) ELSE <<>>] :
     r \in ReadFull(q, KeyLen, ended, brk)}

\* A Dial that returns clientHandshake's own error and leaves the
\* connection open.
DialFailLeak(c, e) ==
  /\ cerr' = [cerr EXCEPT ![c] = e]
  /\ cKey' = [cKey EXCEPT ![c] = 0]
  /\ cPeer' = [cPeer EXCEPT ![c] = <<>>]
  /\ cClosed' = cClosed
  /\ s2c' = s2c
  /\ dialRet' = [dialRet EXCEPT ![c] = e]
  /\ cpc' = [cpc EXCEPT ![c] = "c_done"]

\* Dial, lines 49-52: clientHandshake returned (nil, nil, e); Dial closes the
\* connection and returns (nil, ErrBadHandshake).
DialFail(c, e) ==
  /\ cerr' = [cerr EXCEPT ![c] = e]
  /\ cKey' = [cKey EXCEPT ![c] = 0]
  /\ cPeer' = [cPeer EXCEPT ![c] = <<>>]
  /\ cClosed' = [cClosed EXCEPT ![c] = TRUE]
  /\ s2c' = [s2c EXCEPT ![c] = <<>>]
  /\ dialRet' = [dialRet EXCEPT ![c] = ErrBadHandshake]
  /\ cpc' = [cpc EXCEPT ![c] = "c_done"]

\* Dial, lines 54-59: clientHandshake returned the keys; Dial returns the
\* channel.
DialOk(c) ==
  /\ dialRet' = [dialRet EXCEPT ![c] = "chan"]
  /\ cpc' = [cpc EXCEPT ![c] = "c_open"]
  /\ UNCHANGED <<cerr, cClosed, s2c>>

\* Connections are numbered in the order they connect.
InOrder(c) == c \in peers /\ (IF c = 1 THEN TRUE ELSE ckind[c - 1] # "none")

\* A peer connects to the listener: net.Dial succeeds and the connection
\* waits to be accepted.  kind "dial": the peer is Dial; "raw": a peer that
\* uses the connection directly.
Connect(c, kind) ==
  /\ lst = "open"
  /\ ckind[c] = "none"
  /\ InOrder(c)
  /\ ckind' = [ckind EXCEPT ![c] = kind]
  /\ cpc' = [cpc EXCEPT ![c] = IF kind = "dial" THEN "c_token" ELSE "r_send"]
  /\ UNCHANGED <<listenerVars, cerr, dialRet, cKey, cPeer, cSent, cGot, rGot,
                 serverVars, wireVars>>

\* Dial, lines 43-46: net.Dial fails (nobody listens); Dial returns its error.
DialRefused(c) ==
  /\ lst # "open"
  /\ ckind[c] = "none"
  /\ InOrder(c)
  /\ ckind' = [ckind EXCEPT ![c] = "dial"]
  /\ cpc' = [cpc EXCEPT ![c] = "c_done"]
  /\ dialRet' = [dialRet EXCEPT ![c] = "connErr"]
  /\ UNCHANGED <<listenerVars, cerr, cKey, cPeer, cSent, cGot, rGot,
                 serverVars, wireVars>>

\* clientHandshake, lines 144-146: writeFull(c, protocolHandshake).
DialWriteToken(c) ==
  /\ ckind[c] = "dial"
  /\ cpc[c] = "c_token"
  /\ \E w \in Writes(protocolHandshake, sClosed[c], broken[c]) :
       /\ c2s' = [c2s EXCEPT ![c] = @ \o w.del]
       /\ cOut' = [cOut EXCEPT ![c] = @ \o w.out]
       /\ broken' = [broken EXCEPT ![c] = w.brk]
       /\ IF w.err = "nil"
            THEN /\ cpc' = [cpc EXCEPT ![c] = "c_recvKey"]
                 /\ UNCHANGED <<cerr, cKey, cPeer, cClosed, s2c, dialRet>>
            ELSE DialFail(c, w.err)
  /\ UNCHANGED <<listenerVars, ckind, cSent, cGot, rGot, serverVars, sOut, sClosed>>

\* clientHandshake, lines 149-152: serverPub, err := receiveKey(c).
DialRecvKey(c) ==
  /\ ckind[c] = "dial"
  /\ cpc[c] = "c_recvKey"
  /\ \E r \in ReceiveKey(s2c[c], sClosed[c], broken[c]) :
       IF r.err = "nil"
         THEN /\ cPeer' = [cPeer EXCEPT ![c] = r.key]
              /\ s2c' = [s2c EXCEPT ![c] = Drop(@, r.n)]
              /\ cpc' = [cpc EXCEPT ![c] = "c_sendKey"]
              /\ UNCHANGED <<cerr, cKey, cClosed, dialRet>>
         ELSE DialFail(c, r.err)
  /\ UNCHANGED <<listenerVars, ckind, cSent, cGot, rGot, serverVars,
                 c2s, cOut, sOut, sClosed, broken>>

\* clientHandshake, lines 155-164: box.GenerateKey, which can fail, then
\* writeFull(c, clientPub[:]); on success Dial returns the channel.
DialSendKey(c) ==
  /\ ckind[c] = "dial"
  /\ cpc[c] = "c_sendKey"
  /\ \/ /\ RandFails
        /\ DialFail(c, "rand")
        /\ UNCHANGED <<c2s, cOut, broken>>
     \/ \E w \in Writes(PubKey(ClientKeyId(c)), sClosed[c], broken[c]) :
          /\ c2s' = [c2s EXCEPT ![c] = @ \o w.del]
          /\ cOut' = [cOut EXCEPT ![c] = @ \o w.out]
          /\ broken' = [broken EXCEPT ![c] = w.brk]
          /\ IF w.err = "nil"
               THEN /\ cKey' = [cKey EXCEPT ![c] = ClientKeyId(c)]
                    /\ UNCHANGED cPeer
                    /\ DialOk(c)
               ELSE DialFail(c, w.err)
  /\ UNCHANGED <<listenerVars, ckind, cSent, cGot, rGot, serverVars, sOut, sClosed>>

\* ----------------------------------------------------------- raw peer
\* A raw peer writes m on the connection (the tests' fmt.Fprintf(conn, ...)).
RawSend(c, m) ==
  /\ ckind[c] = "raw"
  /\ cpc[c] = "r_send"
  /\ ~broken[c]
  /\ c2s' = [c2s EXCEPT ![c] = IF sClosed[c] THEN @ ELSE @ \o m]
  /\ cOut' = [cOut EXCEPT ![c] = @ \o m]
  /\ cpc' = [cpc EXCEPT ![c] = "r_read"]
  /\ UNCHANGED <<listenerVars, ckind, cerr, dialRet, cKey, cPeer, cSent, cGot,
                 rGot, serverVars, s2c, sOut, cClosed, sClosed, broken>>

\* A raw peer reads what is there (the tests' conn.Read into 2048 bytes); on
\* end of stream ("r_eof") or an error ("r_err") it is done and closes.
RawRead(c) ==
  /\ ckind[c] = "raw"
  /\ cpc[c] = "r_read"
  /\ \E r \in ConnRead(s2c[c], Len(s2c[c]), sClosed[c], broken[c]) :
       /\ r.n = Len(s2c[c])
       /\ rGot' = [rGot EXCEPT ![c] = @ \o s2c[c]]
       /\ s2c' = [s2c EXCEPT ![c] = <<>>]
       /\ cpc' = [cpc EXCEPT ![c] = IF r.err = "nil" THEN "r_read"
                                     ELSE IF r.err = "EOF" THEN "r_eof" ELSE "r_err"]
       /\ cClosed' = [cClosed EXCEPT ![c] = r.err # "nil"]
  /\ UNCHANGED <<listenerVars, ckind, cerr, dialRet, cKey, cPeer, cSent, cGot,
                 serverVars, c2s, cOut, sOut, sClosed, broken>>

\* A raw peer closes the connection, whether or not it has written.
RawClose(c) ==
  /\ ckind[c] = "raw"
  /\ cpc[c] \in {"r_send", "r_read"}
  /\ cClosed' = [cClosed EXCEPT ![c] = TRUE]
  /\ s2c' = [s2c EXCEPT ![c] = <<>>]
  /\ cpc' = [cpc EXCEPT ![c] = "r_done"]
  /\ UNCHANGED <<listenerVars, ckind, cerr, dialRet, cKey, cPeer, cSent, cGot,
                 rGot, serverVars, c2s, cOut, sOut, sClosed, broken>>

\* ------------------------------------------- SecureWriter, SecureReader
\* The wire format of a message: header, nonce, sealed plaintext, tag.
headerLength == 4

nonceLength == 24

tagLength == 16

\* The key box.Seal and box.Open derive from a private key (of key pair priv)
\* and a peer's public key: the same for (a, PubKey(b)) and (b, PubKey(a)); 0
\* when the peer's bytes are the public key of no key pair.
SharedKey(priv, peerPub) ==
  LET ids == {j \in 1..(2 * MaxConns) : PubKey(j) = peerPub}
  IN IF ids = {} \/ priv = 0 THEN 0
     ELSE LET j == CHOOSE x \in ids : TRUE
          IN IF priv <= j THEN 10 * priv + j ELSE 10 * j + priv

\* A writer that uses one nonce for all its frames.
NonceIdFixed(priv, n) == 10 * priv

\* The n-th nonce drawn by the holder of key pair priv: fresh each time.
NonceId(priv, n) == 10 * priv + n

NonceBytes(nid) == [i \in 1..nonceLength |-> 50000 + 100 * nid + i]

\* The length field: a big-endian 32-bit integer.
Header(n) == <<(n \div 16777216) % 256, (n \div 65536) % 256, (n \div 256) % 256, n % 256>>

\* A reader that decodes the length field low byte first.
HeaderValLowFirst(h) ==
  (h[4] % 256) * 16777216 + (h[3] % 256) * 65536 + (h[2] % 256) * 256 + (h[1] % 256)

HeaderVal(h) ==
  (h[1] % 256) * 16777216 + (h[2] % 256) * 65536 + (h[3] % 256) * 256 + (h[4] % 256)

RECURSIVE WeightedSum(_, _)
WeightedSum(p, j) == IF j = 0 THEN 0 ELSE j * p[j] + WeightedSum(p, j - 1)

\* What the tag authenticates of the plaintext.
Digest(p) == (7 * Len(p) + WeightedSum(p, Len(p))) % 997

\* box.Seal: the encrypted bytes, then the 16 bytes of the tag.
Seal(sh, nid, p) ==
  [j \in 1..Len(p) |-> 100000 + ((100 * sh + nid) * 8 + (j % 8)) * 256 + p[j]]
  \o [i \in 1..tagLength |->
        30000000 + ((100 * sh + nid) * 1000 + Digest(p)) * 16 + (i - 1)]

\* An Open that decrypts without verifying the tag.
OpenUnverified(sh, nonce, sealed) ==
  LET n == Len(sealed) - tagLength
  IN IF n >= 0
       THEN [ok |-> TRUE,
             p |-> [j \in 1..n |-> IF sealed[j] >= 100000
                                     THEN (sealed[j] - 100000) % 256 ELSE 0]]
       ELSE [ok |-> FALSE, p |-> <<>>]

\* box.Open: the plaintext when the tag verifies under the key and the nonce.
Open(sh, nonce, sealed) ==
  LET n == Len(sealed) - tagLength
      nid == (nonce[1] - 50000) \div 100
      p == [j \in 1..n |-> IF sealed[j] >= 100000 THEN (sealed[j] - 100000) % 256 ELSE 0]
  IN IF n >= 0 /\ sh # 0 /\ nonce = NonceBytes(nid) /\ sealed = Seal(sh, nid, p)
       THEN [ok |-> TRUE, p |-> p]
       ELSE [ok |-> FALSE, p |-> <<>>]

\* The frame SecureWriter.Write puts on the wire for a plaintext p.
Frame(sh, nid, p) ==
  Header(nonceLength + Len(p) + tagLength) \o NonceBytes(nid) \o Seal(sh, nid, p)

\* The largest plaintext of one message (the value is the implementation's
\* choice; a small one stands for it).
MaxMsgLen == 3

\* A writer without the bound on the plaintext.
AcceptsAll(p) == TRUE

\* Whether SecureWriter.Write takes the plaintext p: one of MaxMsgLen bytes
\* is written, a longer one is refused.
Accepts(p) == Len(p) <= MaxMsgLen

\* A writer for which the empty write is a no-op.
FramedNonEmpty(p) == Accepts(p) /\ p # <<>>

\* Whether SecureWriter.Write puts a frame on the stream for p: for every
\* plaintext it takes, the empty one included (the reader then returns a
\* message of 0 bytes).
Framed(p) == Accepts(p)

\* A SecureWriter that sends the plaintext in the clear after the header.
SecureWriteClear(sh, nid, p) ==
  IF ~Accepts(p) THEN [n |-> 0, err |-> "ErrMessageTooLarge", bytes |-> <<>>]
  ELSE [n |-> Len(p), err |-> "nil",
        bytes |-> IF Framed(p) THEN Header(Len(p)) \o p ELSE <<>>]

\* SecureWriter.Write of the plaintext p under the key sh with the nonce
\* nid: the count and error it returns when the stream takes the bytes,
\* and the bytes it hands to the stream.  A plaintext it does not take is
\* refused before anything is sent.
SecureWrite(sh, nid, p) ==
  IF ~Accepts(p) THEN [n |-> 0, err |-> "ErrMessageTooLarge", bytes |-> <<>>]
  ELSE [n |-> Len(p), err |-> "nil",
        bytes |-> IF Framed(p) THEN Frame(sh, nid, p) ELSE <<>>]

\* A SecureReader that passes the stream's end through as it is.
StreamEndErrPlain(e) == e

\* What SecureReader.Read returns when the stream fails or ends before the
\* header or the frame it announces is complete: io.ErrUnexpectedEOF for an
\* end of stream, also one met before the first byte of a header.
StreamEndErr(e) ==
  IF e \in {"EOF", "ErrUnexpectedEOF"} THEN "ErrUnexpectedEOF" ELSE e

\* SecureReader.Read on the queue q: the outcomes, none when it blocks.  take:
\* the bytes consumed; p: the plaintext returned.
SecureRead(q, ended, brk, sh) ==
  LET hs == ReadFull(q, headerLength, ended, brk)
  IN IF hs = {} THEN {}
     ELSE LET h == CHOOSE x \in hs : TRUE
          IN IF h.err # "nil"
               THEN {[take |-> h.n, p |-> <<>>, err |-> StreamEndErr(h.err)]}
               ELSE LET n == HeaderVal(Take(q, headerLength))
                        rest == Drop(q, headerLength)
                        bs == ReadFull(rest, n, ended, brk)
                    IN IF bs = {} THEN {}
                       ELSE LET b == CHOOSE x \in bs : TRUE
                                body == Take(rest, n)
                                o == Open(sh, Take(body, nonceLength), Drop(body, nonceLength))
                            IN IF b.err # "nil"
                                 THEN {[take |-> headerLength + b.n, p |-> <<>>,
                                        err |-> StreamEndErr(b.err)]}
                               ELSE IF n < nonceLength + tagLength \/ ~o.ok
                                 THEN {[take |-> headerLength + n, p |-> <<>>,
                                        err |-> "ErrDecryptionError"]}
                               ELSE {[take |-> headerLength + n, p |-> o.p, err |-> "nil"]}


\* A Serve that swallows Accept's error.
ServeReturnNil(e) == "nil"

\* -------------------------------------------------------------- Serve
\* What Serve does with an error of l.Accept: return err (line 70).
ServeReturn(e) == e

\* A Serve that calls serve(conn) without go: it accepts the next
\* connection only when every handler has returned.
ServeAcceptInline(c) ==
  /\ servePc = "accept"
  /\ lst = "open"
  /\ ckind[c] # "none"
  /\ spc[c] = "s_none"
  /\ \A d \in Conns : spc[d] \in {"s_none", "s_done"}
  /\ acceptErr' = "nil"
  /\ spc' = [spc EXCEPT ![c] = "s_token"]
  /\ UNCHANGED <<lst, servePc, serveErr, peers, faulty, quota, otherVars, clientVars, serr, sKey, sPeer, sFailAt,
                 sBuf, sReadLog, sWriteLog, wireVars>>

\* Serve, lines 66-68: l.Accept() gives the oldest waiting connection and
\* the loop starts its handler, go serve(conn), and goes back to Accept.
ServeAccept(c) ==
  /\ servePc = "accept"
  /\ lst = "open"
  /\ ckind[c] # "none"
  /\ spc[c] = "s_none"
  /\ \A d \in Conns : d < c => spc[d] # "s_none"
  /\ acceptErr' = "nil"
  /\ spc' = [spc EXCEPT ![c] = "s_token"]
  /\ UNCHANGED <<lst, servePc, serveErr, peers, faulty, quota, otherVars, clientVars, serr, sKey, sPeer, sFailAt,
                 sBuf, sReadLog, sWriteLog, wireVars>>

\* Serve, lines 69-70: l.Accept() fails and Serve returns its error.
ServeAcceptFail ==
  /\ servePc = "accept"
  /\ lst # "open"
  /\ acceptErr' = lst
  /\ servePc' = "returned"
  /\ serveErr' = ServeReturn(lst)
  /\ UNCHANGED <<lst, peers, faulty, quota, otherVars, clientVars, serverVars, wireVars>>

\* A token check that compares nothing.
TokenResultAny(err, buf) ==
  IF err \in {"EOF", "ErrUnexpectedEOF"} THEN "ErrUnexpectedEOF"
  ELSE IF err # "nil" THEN err
  ELSE "nil"

\* ---------------------------------------------------- serverHandshake
\* serverHandshake, lines 109-120: the switch on the result of
\* c.Read(clientHandshake), buf being the buffer after the Read.
TokenResult(err, buf) ==
  IF err \in {"EOF", "ErrUnexpectedEOF"} THEN "ErrUnexpectedEOF"
  ELSE IF err # "nil" THEN err
  ELSE IF protocolHandshake # buf THEN ErrBadHandshake
  ELSE "nil"

\* A serve that closes a failed connection without the rejection.
HandshakeFailSilent(c, e, step) ==
  /\ serr' = [serr EXCEPT ![c] = e]
  /\ sFailAt' = [sFailAt EXCEPT ![c] = step]
  /\ sKey' = [sKey EXCEPT ![c] = 0]
  /\ sPeer' = [sPeer EXCEPT ![c] = <<>>]
  /\ spc' = [spc EXCEPT ![c] = "s_close"]

\* A serve that goes on to its echo loop after a failed handshake.
HandshakeFailEcho(c, e, step) ==
  /\ serr' = [serr EXCEPT ![c] = e]
  /\ sFailAt' = [sFailAt EXCEPT ![c] = step]
  /\ sKey' = [sKey EXCEPT ![c] = 0]
  /\ sPeer' = [sPeer EXCEPT ![c] = <<>>]
  /\ spc' = [spc EXCEPT ![c] = "s_read"]

\* serverHandshake returned (nil, nil, e) at step, and serve goes on to
\* reject the peer (lines 78-79).
HandshakeFail(c, e, step) ==
  /\ serr' = [serr EXCEPT ![c] = e]
  /\ sFailAt' = [sFailAt EXCEPT ![c] = step]
  /\ sKey' = [sKey EXCEPT ![c] = 0]
  /\ sPeer' = [sPeer EXCEPT ![c] = <<>>]
  /\ spc' = [spc EXCEPT ![c] = "s_reject"]

\* serverHandshake, lines 107-120: one c.Read into a buffer of the token's
\* length, then the comparison with the token.
ServerReadToken(c) ==
  /\ spc[c] = "s_token"
  /\ \E r \in Reads(c2s[c], Len(protocolHandshake), cClosed[c], broken[c]) :
       LET buf == Filled(ZeroBuf(Len(protocolHandshake)), Take(c2s[c], r.n))
           res == TokenResult(r.err, buf)
       IN /\ c2s' = [c2s EXCEPT ![c] = Drop(@, r.n)]
          /\ IF res = "nil"
               THEN /\ spc' = [spc EXCEPT ![c] = "s_sendKey"]
                    /\ UNCHANGED <<serr, sKey, sPeer, sFailAt>>
               ELSE HandshakeFail(c, res, "token")
  /\ UNCHANGED <<listenerVars, clientVars, sBuf, sReadLog, sWriteLog,
                 s2c, cOut, sOut, cClosed, sClosed, broken>>

\* serverHandshake, lines 123-130: box.GenerateKey, which can fail, then
\* writeFull(c, serverPub[:]).
ServerSendKey(c) ==
  /\ spc[c] = "s_sendKey"
  /\ \/ /\ RandFails
        /\ HandshakeFail(c, "rand", "keygen")
        /\ UNCHANGED <<s2c, sOut, broken>>
     \/ \E w \in Writes(PubKey(ServerKeyId(c)), cClosed[c], broken[c]) :
          /\ s2c' = [s2c EXCEPT ![c] = @ \o w.del]
          /\ sOut' = [sOut EXCEPT ![c] = @ \o w.out]
          /\ broken' = [broken EXCEPT ![c] = w.brk]
          /\ IF w.err = "nil"
               THEN /\ sKey' = [sKey EXCEPT ![c] = ServerKeyId(c)]
                    /\ spc' = [spc EXCEPT ![c] = "s_recvKey"]
                    /\ UNCHANGED <<serr, sPeer, sFailAt>>
               ELSE HandshakeFail(c, w.err, "keywrite")
  /\ UNCHANGED <<listenerVars, clientVars, sBuf, sReadLog, sWriteLog,
                 c2s, cOut, cClosed, sClosed>>

\* serverHandshake, lines 133-138: clientPub, err := receiveKey(c); on success
\* serve builds the secureConn and enters its loop (lines 84-91).
ServerRecvKey(c) ==
  /\ spc[c] = "s_recvKey"
  /\ \E r \in ReceiveKey(c2s[c], cClosed[c], broken[c]) :
       /\ c2s' = [c2s EXCEPT ![c] = Drop(@, r.n)]
       /\ IF r.err = "nil"
            THEN /\ sPeer' = [sPeer EXCEPT ![c] = r.key]
                 /\ spc' = [spc EXCEPT ![c] = "s_read"]
                 /\ UNCHANGED <<serr, sKey, sFailAt>>
            ELSE HandshakeFail(c, r.err, "keyread")
  /\ UNCHANGED <<listenerVars, clientVars, sBuf, sReadLog, sWriteLog,
                 s2c, cOut, sOut, cClosed, sClosed, broken>>

\* -------------------------------------------------------------- serve
\* What serve writes when the handshake failed (line 79).
RejectBytes == badHandshakeResponse

\* serve, line 79: conn.Write(badHandshakeResponse), its result ignored.
ServerReject(c) ==
  /\ spc[c] = "s_reject"
  /\ \E w \in Writes(RejectBytes, cClosed[c], broken[c]) :
       /\ s2c' = [s2c EXCEPT ![c] = @ \o w.del]
       /\ sOut' = [sOut EXCEPT ![c] = @ \o w.out]
       /\ broken' = [broken EXCEPT ![c] = w.brk]
  /\ spc' = [spc EXCEPT ![c] = "s_close"]
  /\ UNCHANGED <<listenerVars, clientVars, serr, sKey, sPeer, sFailAt, sBuf,
                 sReadLog, sWriteLog, c2s, cOut, cClosed, sClosed>>

\* A serve that returns without closing the connection.
ServerReturnOpen(c) ==
  /\ spc[c] = "s_close"
  /\ spc' = [spc EXCEPT ![c] = "s_done"]
  /\ UNCHANGED <<listenerVars, clientVars, serr, sKey, sPeer, sFailAt, sBuf,
                 sReadLog, sWriteLog, wireVars>>

\* serve, lines 80-81 and 101: conn.Close() and the handler ends.  What the
\* peer sent and the server did not read is dropped.
ServerClose(c) ==
  /\ spc[c] = "s_close"
  /\ sClosed' = [sClosed EXCEPT ![c] = TRUE]
  /\ c2s' = [c2s EXCEPT ![c] = <<>>]
  /\ spc' = [spc EXCEPT ![c] = "s_done"]
  /\ UNCHANGED <<listenerVars, clientVars, serr, sKey, sPeer, sFailAt, sBuf,
                 sReadLog, sWriteLog, s2c, cOut, sOut, cClosed, broken>>

\* ------------------------------------------------- serve: the echo loop
\* The key of the server's secureConn (lines 84-88).
ServerShared(c) == SharedKey(sKey[c], sPeer[c])

\* An echo loop that writes back only the first byte it read.
EchoFirstByte(p) == Take(p, 1)

\* What serve writes back after reading buf[:n] (line 96).
EchoOf(p) == p

\* serve, lines 92-95: n, err := c.Read(buf[0:]); an error ends the loop.
ServerEchoRead(c) ==
  /\ spc[c] = "s_read"
  /\ \E r \in SecureRead(c2s[c], cClosed[c], broken[c], ServerShared(c)) :
       /\ c2s' = [c2s EXCEPT ![c] = Drop(@, r.take)]
       /\ IF r.err = "nil"
            THEN /\ sBuf' = [sBuf EXCEPT ![c] = r.p]
                 /\ sReadLog' = [sReadLog EXCEPT ![c] = Append(@, r.p)]
                 /\ spc' = [spc EXCEPT ![c] = "s_write"]
            ELSE /\ spc' = [spc EXCEPT ![c] = "s_close"]
                 /\ UNCHANGED <<sBuf, sReadLog>>
  /\ UNCHANGED <<listenerVars, clientVars, serr, sKey, sPeer, sFailAt, sWriteLog,
                 s2c, cOut, sOut, cClosed, sClosed, broken>>

\* serve, lines 96-99: n, err = c.Write(buf[:n]); an error ends the loop.
ServerEchoWrite(c) ==
  /\ spc[c] = "s_write"
  /\ \E w \in Writes(SecureWrite(ServerShared(c),
                                 NonceId(sKey[c], Len(sWriteLog[c]) + 1),
                                 EchoOf(sBuf[c])).bytes,
                     cClosed[c], broken[c]) :
       /\ s2c' = [s2c EXCEPT ![c] = @ \o w.del]
       /\ sOut' = [sOut EXCEPT ![c] = @ \o w.out]
       /\ broken' = [broken EXCEPT ![c] = w.brk]
       /\ IF w.err = "nil"
            THEN /\ sWriteLog' = [sWriteLog EXCEPT ![c] = Append(@, EchoOf(sBuf[c]))]
                 /\ spc' = [spc EXCEPT ![c] = "s_read"]
            ELSE /\ spc' = [spc EXCEPT ![c] = "s_close"]
                 /\ UNCHANGED sWriteLog
  /\ sBuf' = [sBuf EXCEPT ![c] = <<>>]
  /\ UNCHANGED <<listenerVars, clientVars, serr, sKey, sPeer, sFailAt, sReadLog,
                 c2s, cOut, cClosed, sClosed>>

\* --------------------------------------------- the client on its channel
\* The i-th message a client writes on the channel Dial returned.
Plain(i) == [j \in 1..i |-> 96 + i]

\* The key of the client's secureConn (Dial, lines 54-58).
ClientShared(c) == SharedKey(cKey[c], cPeer[c])

\* The client writes its next message on the channel; an error ends its use
\* of the channel, which it closes.
ClientWrite(c) ==
  /\ cpc[c] = "c_open"
  /\ cSent[c] < quota
  /\ \E w \in Writes(SecureWrite(ClientShared(c), NonceId(cKey[c], cSent[c] + 1),
                                 Plain(cSent[c] + 1)).bytes,
                     sClosed[c], broken[c]) :
       /\ c2s' = [c2s EXCEPT ![c] = @ \o w.del]
       /\ cOut' = [cOut EXCEPT ![c] = @ \o w.out]
       /\ broken' = [broken EXCEPT ![c] = w.brk]
       /\ IF w.err = "nil"
            THEN /\ cSent' = [cSent EXCEPT ![c] = @ + 1]
                 /\ UNCHANGED <<cpc, cClosed, s2c>>
            ELSE /\ cpc' = [cpc EXCEPT ![c] = "c_err"]
                 /\ cClosed' = [cClosed EXCEPT ![c] = TRUE]
                 /\ s2c' = [s2c EXCEPT ![c] = <<>>]
                 /\ UNCHANGED cSent
  /\ UNCHANGED <<listenerVars, ckind, cerr, dialRet, cKey, cPeer, cGot, rGot,
                 serverVars, sOut, sClosed>>

\* The client reads the echo of a message it wrote; an error of a Read or a
\* Write ends its use of the channel ("c_err"), which it closes.
ClientRead(c) ==
  /\ cpc[c] = "c_open"
  /\ Len(cGot[c]) < cSent[c]
  /\ \E r \in SecureRead(s2c[c], sClosed[c], broken[c], ClientShared(c)) :
       IF r.err = "nil"
         THEN /\ cGot' = [cGot EXCEPT ![c] = Append(@, r.p)]
              /\ s2c' = [s2c EXCEPT ![c] = Drop(@, r.take)]
              /\ UNCHANGED <<cpc, cClosed>>
         ELSE /\ cpc' = [cpc EXCEPT ![c] = "c_err"]
              /\ cClosed' = [cClosed EXCEPT ![c] = TRUE]
              /\ s2c' = [s2c EXCEPT ![c] = <<>>]
              /\ UNCHANGED cGot
  /\ UNCHANGED <<listenerVars, ckind, cerr, dialRet, cKey, cPeer, cSent, rGot,
                 serverVars, c2s, cOut, sOut, sClosed, broken>>

\* The client closes the channel: secureConn.Close (lines 36-38).
ClientClose(c) ==
  /\ cpc[c] = "c_open"
  /\ cClosed' = [cClosed EXCEPT ![c] = TRUE]
  /\ s2c' = [s2c EXCEPT ![c] = <<>>]
  /\ cpc' = [cpc EXCEPT ![c] = "c_done"]
  /\ UNCHANGED <<listenerVars, ckind, cerr, dialRet, cKey, cPeer, cSent, cGot,
                 rGot, serverVars, c2s, cOut, sOut, sClosed, broken>>

\* ------------------------------------------------------ specification
Next ==
  \/ \E e \in ListenerErrs : CloseListener(e)
  \/ \E c \in Conns : Break(c)
  \/ \E c \in Conns, kind \in {"dial", "raw"} : Connect(c, kind)
  \/ \E c \in Conns : DialRefused(c)
  \/ \E c \in Conns : DialWriteToken(c)
  \/ \E c \in Conns : DialRecvKey(c)
  \/ \E c \in Conns : DialSendKey(c)
  \/ \E c \in Conns, m \in RawMsgs : RawSend(c, m)
  \/ \E c \in Conns : RawRead(c)
  \/ \E c \in Conns : RawClose(c)
  \/ \E c \in Conns : ServeAccept(c)
  \/ ServeAcceptFail
  \/ \E c \in Conns : ServerReadToken(c)
  \/ \E c \in Conns : ServerSendKey(c)
  \/ \E c \in Conns : ServerRecvKey(c)
  \/ \E c \in Conns : ServerReject(c)
  \/ \E c \in Conns : ServerClose(c)
  \/ \E c \in Conns : ServerEchoRead(c)
  \/ \E c \in Conns : ServerEchoWrite(c)
  \/ \E c \in Conns : ClientWrite(c)
  \/ \E c \in Conns : ClientRead(c)
  \/ \E c \in Conns : ClientClose(c)

Spec == Init /\ [][Next]_vars

\* Several peers at once: Dial clients and raw peers that write the
\* plaintext of the tests, or nothing, and close when they like; the
\* listener stays open.
NextServe ==
  \/ \E c \in Conns, kind \in {"dial", "raw"} : Connect(c, kind)
  \/ \E c \in Conns : DialWriteToken(c)
  \/ \E c \in Conns : DialRecvKey(c)
  \/ \E c \in Conns : DialSendKey(c)
  \/ \E c \in Conns : RawSend(c, HelloWorld)
  \/ \E c \in Conns : RawRead(c)
  \/ \E c \in Conns : RawClose(c)
  \/ \E c \in Conns : ServeAccept(c)
  \/ \E c \in Conns : ServerReadToken(c)
  \/ \E c \in Conns : ServerSendKey(c)
  \/ \E c \in Conns : ServerRecvKey(c)
  \/ \E c \in Conns : ServerReject(c)
  \/ \E c \in Conns : ServerClose(c)
  \/ \E c \in Conns : ServerEchoRead(c)
  \/ \E c \in Conns : ServerEchoWrite(c)
  \/ \E c \in Conns : ClientWrite(c)
  \/ \E c \in Conns : ClientRead(c)
  \/ \E c \in Conns : ClientClose(c)

SpecServe == InitServe /\ [][NextServe]_vars

\* One step of the accept loop for connection c or of c's handler.
ServerStep(c) ==
  \/ ServeAccept(c) \/ ServerReadToken(c) \/ ServerSendKey(c)
  \/ ServerRecvKey(c) \/ ServerReject(c) \/ ServerClose(c)
  \/ ServerEchoRead(c) \/ ServerEchoWrite(c)

\* One peer on a transport that does not fail, with the scheduling the
\* program has: the accept loop and every handler goroutine run when they
\* can, and a Read the client has called returns when its frame is there.
InitEcho == InitState /\ NoPipe /\ NoDecode /\ peers = {1} /\ faulty = FALSE /\ quota = MaxMsgs

NextEcho ==
  \/ \E c \in Conns, kind \in {"dial", "raw"} : Connect(c, kind)
  \/ \E c \in Conns : DialWriteToken(c) \/ DialRecvKey(c) \/ DialSendKey(c)
  \/ \E c \in Conns, m \in RawMsgs : RawSend(c, m)
  \/ \E c \in Conns : RawRead(c) \/ RawClose(c)
  \/ \E c \in Conns : ServerStep(c)
  \/ \E c \in Conns : ClientWrite(c) \/ ClientRead(c) \/ ClientClose(c)

SpecEcho ==
  /\ InitEcho /\ [][NextEcho]_vars
  /\ \A c \in Conns : WF_vars(ServerStep(c)) /\ WF_vars(ClientRead(c))

\* One peer and the server on a network that can fail, with the scheduling
\* the program has: the accept loop and every handler goroutine run when
\* they can.
SpecCancel ==
  /\ Init /\ [][Next]_vars
  /\ \A c \in Conns : WF_vars(ServerStep(c))

\* ------------------------- a SecureWriter/SecureReader pair on one stream
\* The tests' pair (wrapTestReaderAndWriter): writers with the writer's
\* private key and the reader's public key, a reader with the reader's
\* private key and the writer's public key, on an io.Pipe or a bytes.Buffer.
WriterKeyId == 1

ReaderKeyId == 2

WriterShared == SharedKey(WriterKeyId, PubKey(ReaderKeyId))

ReaderShared == SharedKey(ReaderKeyId, PubKey(WriterKeyId))

\* The plaintexts the tests write: of every length from none to one over
\* MaxMsgLen.
PipePlain(n) == [j \in 1..n |-> 103 + j]

PlainLens == 0..(MaxMsgLen + 1)

\* A bytes.Buffer that is empty reads as ended; an io.Pipe does once its
\* writing end is closed.
PipeEnded == pKind = "buffer" \/ pClosed

connVars ==
  <<lst, servePc, serveErr, acceptErr, peers, faulty, quota, clientVars,
    serverVars, wireVars, fGot>>

InitPipe ==
  /\ InitState /\ NoDecode /\ peers = {} /\ faulty = FALSE /\ quota = 0
  /\ pKind \in {"pipe", "buffer"}
  /\ pq = <<>> /\ pClosed = FALSE /\ pNonces = 0
  /\ pWrites = <<>> /\ pReads = <<>> /\ pTaken = 0 /\ pHarm = "none"

\* secureW.Write(p) by writer w (two writers can share the keys): on a pipe
\* whose writing end is closed a frame is not taken and Write returns 0 and
\* the stream's error.
PipeWrite(w, p) ==
  /\ pKind # "none" /\ pHarm = "none"
  /\ Len(pWrites) < MaxMsgs
  /\ LET res == SecureWrite(WriterShared, NonceId(WriterKeyId, pNonces + 1), p)
         shut == pClosed /\ res.bytes # <<>>
         out == IF shut THEN <<>> ELSE res.bytes
     IN /\ pq' = pq \o out
        /\ pNonces' = pNonces + (IF res.bytes # <<>> THEN 1 ELSE 0)
        /\ pWrites' = Append(pWrites,
             [w |-> w, p |-> p, bytes |-> out,
              n |-> IF shut THEN 0 ELSE res.n,
              err |-> IF shut THEN "ErrClosedPipe" ELSE res.err])
  /\ UNCHANGED <<connVars, decVars, pKind, pClosed, pReads, pTaken, pHarm>>

\* secureR.Read(buf) with a buffer that holds a whole message; the tests
\* stop reading at the first error.
PipeRead ==
  /\ pKind # "none"
  /\ Len(pReads) <= MaxMsgs
  /\ \A i \in 1..Len(pReads) : pReads[i].err = "nil"
  /\ \E r \in SecureRead(pq, PipeEnded, FALSE, ReaderShared) :
       /\ pq' = Drop(pq, r.take)
       /\ pReads' = Append(pReads,
            [had |-> pq, p |-> r.p, n |-> Len(r.p), err |-> r.err])
       /\ pTaken' = pTaken + (IF r.err = "nil" THEN 1 ELSE 0)
  /\ UNCHANGED <<connVars, decVars, pKind, pClosed, pNonces, pWrites, pHarm>>

\* The test closes the writing end of the pipe (wCloser, w.Close()).
PipeCloseWriter ==
  /\ pKind = "pipe" /\ ~pClosed
  /\ pClosed' = TRUE
  /\ UNCHANGED <<connVars, decVars, pKind, pq, pNonces, pWrites, pReads, pTaken, pHarm>>

\* The stream holds exactly the frame of the last Write, unread.
OneFrameUnread ==
  /\ pHarm = "none" /\ pWrites # <<>> /\ pq # <<>>
  /\ pq = pWrites[Len(pWrites)].bytes

\* The bits of a byte the test flips: the lowest and the highest.
FlipBits == {0, 7}

\* The byte b with bit k flipped.
Flip(b, k) == IF (b \div (2 ^ k)) % 2 = 0 THEN b + 2 ^ k ELSE b - 2 ^ k

\* The test takes the frame out of the stream, flips bit k of byte i of its
\* sealed part (ciphertext and tag) and writes it back.
PipeFlip(i, k) ==
  /\ OneFrameUnread
  /\ i > headerLength + nonceLength /\ i <= Len(pq)
  /\ pq' = [pq EXCEPT ![i] = Flip(@, k)]
  /\ pHarm' = "flip"
  /\ UNCHANGED <<connVars, decVars, pKind, pClosed, pNonces, pWrites, pReads, pTaken>>

\* The test takes the frame out of the stream and writes back its first k
\* bytes, and the stream ends there.
PipeCut(k) ==
  /\ OneFrameUnread
  /\ k < Len(pq)
  /\ pq' = Take(pq, k)
  /\ pClosed' = TRUE
  /\ pHarm' = "cut"
  /\ UNCHANGED <<connVars, decVars, pKind, pNonces, pWrites, pReads, pTaken>>

NextPipe ==
  \/ \E w \in 1..2, n \in PlainLens : PipeWrite(w, PipePlain(n))
  \/ PipeRead
  \/ PipeCloseWriter
  \/ \E i \in 1..(headerLength + nonceLength + MaxMsgLen + tagLength), k \in FlipBits :
       PipeFlip(i, k)
  \/ \E k \in 0..(headerLength + nonceLength + MaxMsgLen + tagLength) : PipeCut(k)

SpecPipe == InitPipe /\ [][NextPipe]_vars

\* --------------------------------- Dial against the tests' stand-in server
\* What the stand-in servers of TestSecureDial and TestMoreSecureDial write
\* to a connection they accepted, without reading the token: a line of
\* text longer than a key, and var key [32]byte.
SerializedKey ==
  <<54, 53, 53, 51, 55, 124, 56, 51, 51, 51, 48, 54, 52, 49,
    50, 57, 52, 51, 50, 56, 49, 52, 57, 50, 49, 52, 50, 51,
    56, 49, 57, 52, 51, 50, 49, 56, 52, 57, 51, 50, 49, 56,
    52, 51, 50, 49, 57, 52, 56, 51, 50, 49, 57, 52, 56, 51,
    50, 57, 49, 52, 56, 51, 50, 49, 57, 52, 51, 56, 50, 49,
    52, 49, 50, 57, 52, 56, 51, 50, 49, 57, 56, 55, 52, 10>>

\* What a peer that ignores the token supplies in place of a public key:
\* the two writes of the tests, and one byte short of a key.
StandInKeys == {SerializedKey, ZeroBuf(KeyLen), ZeroBuf(KeyLen - 1)}

\* The stand-in server accepts the connection: conn, err := l.Accept().
StandInAccept(c) ==
  /\ lst = "open"
  /\ ckind[c] # "none"
  /\ spc[c] = "s_none"
  /\ spc' = [spc EXCEPT ![c] = "f_write"]
  /\ UNCHANGED <<listenerVars, clientVars, serr, sKey, sPeer, sFailAt, sBuf,
                 sReadLog, sWriteLog, wireVars>>

\* c.Write(k): the stand-in server supplies k without having read a byte.
StandInWrite(c, k) ==
  /\ spc[c] = "f_write"
  /\ \E w \in Writes(k, cClosed[c], broken[c]) :
       /\ s2c' = [s2c EXCEPT ![c] = @ \o w.del]
       /\ sOut' = [sOut EXCEPT ![c] = @ \o w.out]
       /\ broken' = [broken EXCEPT ![c] = w.brk]
  /\ spc' = [spc EXCEPT ![c] = "f_read"]
  /\ UNCHANGED <<lst, servePc, serveErr, acceptErr, peers, faulty, quota,
                 pipeVars, fGot, decVars, clientVars, serr, sKey, sPeer,
                 sFailAt, sBuf, sReadLog, sWriteLog, c2s, cOut, cClosed, sClosed>>

\* n, err := c.Read(buf) with buf of 2048 bytes: the stand-in server takes
\* what the client sent; it goes on reading until it closes, and an error
\* of Read ends it.
StandInRead(c) ==
  /\ spc[c] = "f_read"
  /\ \E r \in Reads(c2s[c], 2048, cClosed[c], broken[c]) :
       /\ fGot' = [fGot EXCEPT ![c] = @ \o Take(c2s[c], r.n)]
       /\ c2s' = [c2s EXCEPT ![c] = Drop(@, r.n)]
       /\ spc' = [spc EXCEPT ![c] = IF r.err = "nil" THEN "f_read" ELSE "f_close"]
  /\ UNCHANGED <<lst, servePc, serveErr, acceptErr, peers, faulty, quota,
                 pipeVars, decVars, clientVars, serr, sKey, sPeer, sFailAt,
                 sBuf, sReadLog, sWriteLog, s2c, cOut, sOut, cClosed, sClosed,
                 broken>>

\* defer c.Close(): the stand-in server returns, after a Read.
StandInClose(c) ==
  /\ spc[c] \in {"f_read", "f_close"}
  /\ spc[c] = "f_read" => fGot[c] # <<>>
  /\ sClosed' = [sClosed EXCEPT ![c] = TRUE]
  /\ c2s' = [c2s EXCEPT ![c] = <<>>]
  /\ spc' = [spc EXCEPT ![c] = "f_done"]
  /\ UNCHANGED <<listenerVars, clientVars, serr, sKey, sPeer, sFailAt, sBuf,
                 sReadLog, sWriteLog, s2c, cOut, sOut, cClosed, broken>>

\* One step of Dial on connection c.
DialStep(c) == DialWriteToken(c) \/ DialRecvKey(c) \/ DialSendKey(c)

\* Dial and the client of the tests against a stand-in server, on a
\* transport that does not fail; Dial runs when it can.
InitDial ==
  InitState /\ NoPipe /\ NoDecode /\ peers = {1} /\ faulty = FALSE /\ quota = MaxMsgs

NextDial ==
  \/ \E c \in Conns : Connect(c, "dial")
  \/ \E c \in Conns : DialWriteToken(c)
  \/ \E c \in Conns : DialRecvKey(c)
  \/ \E c \in Conns : DialSendKey(c)
  \/ \E c \in Conns : StandInAccept(c)
  \/ \E c \in Conns, k \in StandInKeys : StandInWrite(c, k)
  \/ \E c \in Conns : StandInRead(c)
  \/ \E c \in Conns : StandInClose(c)
  \/ \E c \in Conns : ClientWrite(c)
  \/ \E c \in Conns : ClientRead(c)
  \/ \E c \in Conns : ClientClose(c)

SpecDial ==
  /\ InitDial /\ [][NextDial]_vars
  /\ \A c \in Conns : WF_vars(DialStep(c))

\* ------------------------------------------- the pattern-file decoder
\* DecodeFile of package drum, on a file given as its bytes.
formatFieldBytes == 13

dataLengthFieldBytes == 1

headerBytes == formatFieldBytes + dataLengthFieldBytes

versionFieldBytes == 32

tempoFieldBytes == 4

tracksOffset == headerBytes + versionFieldBytes + tempoFieldBytes

\* spliceMarker = [formatFieldBytes]byte{'S', 'P', 'L', 'I', 'C', 'E'}
spliceMarker == <<83, 80, 76, 73, 67, 69, 0, 0, 0, 0, 0, 0, 0>>

ErrInvalidFileFormat == "ErrInvalidFileFormat"

ErrInsufficientData == "ErrInsufficientData"

\* binary.LittleEndian.Uint32.
LittleEndian(b) == b[1] + 256 * b[2] + 65536 * b[3] + 16777216 * b[4]

\* getVersionAsString: the bytes before the first 0, all of them if none.
getVersionAsString(writer) ==
  LET zs == {i \in 1..Len(writer) : writer[i] = 0}
  IN IF zs = {} THEN writer
     ELSE Take(writer, (CHOOSE i \in zs : \A j \in zs : i <= j) - 1)

\* binary.Read(r, order, &data) for data of n bytes on a reader that holds
\* the bytes b and then ends: io.ReadFull's error and the bytes consumed.
BinaryRead(b, n) == CHOOSE r \in ReadFull(b, n, TRUE, FALSE) : TRUE

\* readHeader (lines 100-126) on a reader that holds the bytes b, s being the
\* size of the file: binary.Read of the header struct (Format, DataLength,
\* Writer, Tempo), whose error is returned as it is; then the marker, then
\* the declared length against the size.  Tempo is kept as its 32 bits.
readHeader(b, s) ==
  LET r == BinaryRead(b, tracksOffset)
  IN IF r.err # "nil" THEN [p |-> <<>>, datalen |-> 0, err |-> r.err]
     ELSE IF spliceMarker # Take(b, formatFieldBytes)
       THEN [p |-> <<>>, datalen |-> 0, err |-> ErrInvalidFileFormat]
     ELSE IF s < headerBytes + b[headerBytes]
       THEN [p |-> <<>>, datalen |-> 0, err |-> ErrInsufficientData]
     ELSE [p |-> <<[Version |-> getVersionAsString(SubSeq(b, headerBytes + 1,
                                                          headerBytes + versionFieldBytes)),
                    Tempo |-> LittleEndian(SubSeq(b, tracksOffset - tempoFieldBytes + 1,
                                                  tracksOffset)),
                    Tracks |-> <<>>]>>,
           datalen |-> b[headerBytes], err |-> "nil"]

\* The bytes of a track before its name (ID uint32, NameLen uint8) and of
\* its steps.
trackHeaderBytes == 5

stepsBytes == 16

\* readTracks (lines 146-173) on a reader that holds the bytes b: the tracks
\* read whole, up to the first read that fails; its error is always nil.
RECURSIVE readTracks(_)
readTracks(b) ==
  IF Len(b) < trackHeaderBytes THEN <<>>
  ELSE LET nameLen == b[trackHeaderBytes]
           size == trackHeaderBytes + nameLen + stepsBytes
       IN IF Len(b) < size THEN <<>>
          ELSE <<[ID |-> LittleEndian(Take(b, 4)),
                  Name |-> SubSeq(b, trackHeaderBytes + 1, trackHeaderBytes + nameLen),
                  Data |-> SubSeq(b, trackHeaderBytes + nameLen + 1, size)]>>
               \o readTracks(Drop(b, size))

\* io.LimitReader(f, n) on the bytes b left in f: at most n of them.
LimitReader(b, n) == IF n <= 0 THEN <<>> ELSE Take(b, Min(n, Len(b)))

\* The files of the tests: a format field, the declared data length, the
\* writer version "0.808-alpha", the tempo 120 and two tracks, kick and
\* clap, cut at a size.
VersionField ==
  <<48, 46, 56, 48, 56, 45, 97, 108, 112, 104, 97>> \o ZeroBuf(versionFieldBytes - 11)

TempoField == <<0, 0, 240, 66>>

TrackFields ==
  <<0, 0, 0, 0, 4, 107, 105, 99, 107>>
    \o <<1, 0, 0, 0, 1, 0, 0, 0, 1, 0, 0, 0, 1, 0, 0, 0>>
  \o <<2, 0, 0, 0, 4, 99, 108, 97, 112>>
    \o <<0, 0, 0, 0, 1, 0, 0, 0, 0, 0, 0, 0, 1, 0, 0, 0>>

\* The format fields: the marker, a marker with another letter, a marker
\* whose padding is not zero.
Formats ==
  {spliceMarker, [spliceMarker EXCEPT ![6] = 70], [spliceMarker EXCEPT ![13] = 1]}

\* The declared data lengths: none, version and tempo only, with one track,
\* with both, one byte more than the file has, the largest.
DataLens == {0, 36, 61, 86, 87, 255}

\* The sizes the file is cut at: empty, inside the format field, at its
\* end, after the data length, one byte short of the tempo's end, at it,
\* inside the first track, after it, after the second.
FileSizes == {0, 1, 13, 14, 49, 50, 51, 75, 100}

FileBytes(f, dl, size) ==
  Take(f \o <<dl>> \o VersionField \o TempoField \o TrackFields, size)

\* The files DecodeFile is called on: one that does not open, one that
\* opens and whose Stat fails, and those that open.
DrumFiles ==
  {[opens |-> FALSE, stats |-> FALSE, bytes |-> <<>>]}
  \cup {[opens |-> TRUE, stats |-> st, bytes |-> FileBytes(f, dl, size)] :
          st \in BOOLEAN, f \in Formats, dl \in DataLens, size \in FileSizes}

InitDecode ==
  /\ InitState /\ NoPipe /\ peers = {} /\ faulty = FALSE /\ quota = 0
  /\ dFile \in DrumFiles
  /\ dpc = "open" /\ dHdr = NoHeader /\ dRet = NoReturn

\* DecodeFile, lines 50-54: os.Open(path); its error is returned.
DecodeOpen ==
  /\ dpc = "open"
  /\ IF dFile.opens
       THEN dpc' = "stat" /\ UNCHANGED dRet
       ELSE dpc' = "returned" /\ dRet' = [p |-> <<>>, err |-> "ErrNotExist"]
  /\ UNCHANGED <<connVars, pipeVars, dFile, dHdr>>

\* DecodeFile, lines 56-59: f.Stat(); its error is returned.
DecodeStat ==
  /\ dpc = "stat"
  /\ IF dFile.stats
       THEN dpc' = "header" /\ UNCHANGED dRet
       ELSE dpc' = "returned" /\ dRet' = [p |-> <<>>, err |-> "ErrStat"]
  /\ UNCHANGED <<connVars, pipeVars, dFile, dHdr>>

\* DecodeFile, lines 61-64: p, datalen, err := readHeader(f, s.Size()).
DecodeReadHeader ==
  /\ dpc = "header"
  /\ LET h == readHeader(dFile.bytes, Len(dFile.bytes))
     IN IF h.err = "nil"
          THEN /\ dHdr' = [p |-> h.p, datalen |-> h.datalen]
               /\ dpc' = "tracks"
               /\ UNCHANGED dRet
          ELSE /\ dRet' = [p |-> <<>>, err |-> h.err]
               /\ dpc' = "returned"
               /\ UNCHANGED dHdr
  /\ UNCHANGED <<connVars, pipeVars, dFile>>

\* DecodeFile, lines 69-77: the tracks are read from the bytes after the
\* header, at most datalen less the version and tempo fields of them, and
\* the pattern is returned.
DecodeReadTracks ==
  /\ dpc = "tracks"
  /\ LET datalen == dHdr.datalen - (versionFieldBytes + tempoFieldBytes)
         r == LimitReader(Drop(dFile.bytes, tracksOffset), datalen)
     IN dRet' = [p |-> <<[dHdr.p[1] EXCEPT !.Tracks = readTracks(r)]>>, err |-> "nil"]
  /\ dpc' = "returned"
  /\ UNCHANGED <<connVars, pipeVars, dFile, dHdr>>

NextDecode ==
  \/ DecodeOpen
  \/ DecodeStat
  \/ DecodeReadHeader
  \/ DecodeReadTracks

SpecDecode == InitDecode /\ [][NextDecode]_vars

\* ============================================================ claims
\* Dial returned the channel: clientHandshake reached Established.
ClientEstablished(c) == dialRet[c] = "chan"

\* serverHandshake returned the keys: it reached Established.
ServerEstablished(c) == sPeer[c] # <<>> /\ sKey[c] # 0

Rejection == badHandshakeResponse

\* C1: on a connection between Dial and Serve, once both handshakes have
\* finished successfully the client holds the public key the server
\* generated and the server the one the client generated; and the bytes on
\* the wire were the token (client to server), then the server's 32-byte
\* key, then the client's 32-byte key: the server's key starts only after
\* the whole token, the client's key only after the whole server key.
C1_HandshakeAgreement ==
  \A c \in Conns : ckind[c] = "dial" =>
    /\ (sOut[c] # <<>> /\ sOut[c][1] = PubKey(ServerKeyId(c))[1])
         => IsPrefix(protocolHandshake, cOut[c])
    /\ Len(cOut[c]) > Len(protocolHandshake)
         => IsPrefix(PubKey(ServerKeyId(c)), sOut[c])
    /\ (ClientEstablished(c) /\ ServerEstablished(c)) =>
         /\ cKey[c] = ClientKeyId(c) /\ sKey[c] = ServerKeyId(c)
         /\ cPeer[c] = PubKey(sKey[c])
         /\ sPeer[c] = PubKey(cKey[c])
         /\ IsPrefix(protocolHandshake \o PubKey(cKey[c]), cOut[c])
         /\ IsPrefix(PubKey(sKey[c]), sOut[c])

C1_Witness ==
  \E c \in Conns :
    /\ ckind[c] = "dial" /\ ClientEstablished(c) /\ ServerEstablished(c)
    /\ cOut[c] = protocolHandshake \o PubKey(ClientKeyId(c))
    /\ sOut[c] = PubKey(ServerKeyId(c))

\* C2 (as stated): a serverHandshake whose stream ends after delivering
\* fewer bytes than the token fails with io.ErrUnexpectedEOF, and one that
\* reads as many bytes as the token, not equal to it, fails with
\* ErrBadHandshake.
C2_TokenReadErrors ==
  [][\A c \in Conns :
       (spc[c] = "s_token" /\ spc'[c] # "s_token") =>
         /\ (cClosed[c] /\ ~broken[c] /\ Len(c2s[c]) < Len(protocolHandshake))
              => serr'[c] = "ErrUnexpectedEOF"
         /\ (Len(c2s[c]) - Len(c2s'[c]) = Len(protocolHandshake)
               /\ Take(c2s[c], Len(protocolHandshake)) # protocolHandshake)
              => serr'[c] = ErrBadHandshake]_vars

\* The bytes a raw peer sent are something other than the token.
SentOther(c) ==
  ckind[c] = "raw" /\ cOut[c] # <<>> /\ ~IsPrefix(protocolHandshake, cOut[c])

\* C3: when a peer sends bytes other than the token, the server-side
\* handshake fails with ErrBadHandshake; the only bytes the server ever
\* writes to it are the rejection token (never the peer's bytes, never a
\* public key), written in full before the close on a connection that is
\* up; and a peer that observes the close has received the rejection.
C3_RejectNonToken ==
  \A c \in Conns : SentOther(c) =>
    /\ spc[c] \notin {"s_none", "s_token"} => serr[c] = ErrBadHandshake
    /\ IsPrefix(sOut[c], Rejection)
    /\ (sClosed[c] /\ ~broken[c] /\ ~cClosed[c]) => sOut[c] = Rejection
    /\ cpc[c] = "r_eof" => rGot[c] = Rejection

C3_Witness ==
  \E c \in Conns :
    /\ SentOther(c) /\ cOut[c] = HelloWorld
    /\ serr[c] = ErrBadHandshake /\ spc[c] = "s_done"
    /\ cpc[c] = "r_eof" /\ rGot[c] = Rejection

\* serve is past its attempt to reject a failed handshake.
Rejected(c) == sFailAt[c] # "none" /\ spc[c] \in {"s_close", "s_done"}

\* C4 (as stated): on every server-side handshake failure, at whatever
\* step, the bytes the server has written are exactly the rejection token.
C4_OnlyRejection ==
  \A c \in Conns : Rejected(c) => sOut[c] = Rejection

\* C4 (amended): after a server-side handshake failure the bytes the server
\* has written are the part of its public key it had sent before the
\* failure followed by the part of the rejection token its one write put
\* on the wire: no key byte when the failure is at the token read, the
\* comparison or the key generation, fewer than 32 at the public-key
\* write, all 32 at the client-key read; and the whole rejection token
\* when the connection is up and the peer has not closed.
C4_RejectionAfterSent ==
  \A c \in Conns : Rejected(c) =>
    \E k \in 0..KeyLen, j \in 0..Len(Rejection) :
      /\ sOut[c] = Take(PubKey(ServerKeyId(c)), k) \o Take(Rejection, j)
      /\ sFailAt[c] \in {"token", "keygen"} => k = 0
      /\ sFailAt[c] = "keywrite" => k < KeyLen
      /\ sFailAt[c] = "keyread" => k = KeyLen
      /\ (~broken[c] /\ ~cClosed[c]) => j = Len(Rejection)

C4_Witness ==
  \E c \in Conns :
    /\ Rejected(c) /\ sFailAt[c] = "keyread"
    /\ sOut[c] = PubKey(ServerKeyId(c)) \o Rejection

\* C5: a Dial whose client handshake fails, whatever the failure, has
\* closed the connection and returns no channel and ErrBadHandshake; and
\* it returns the channel only when the handshake reached Established
\* (it wrote the token and its key and holds its key pair and the server's
\* public key).
C5_DialResult ==
  \A c \in Conns : ckind[c] = "dial" =>
    /\ cerr[c] # "nil" =>
         dialRet[c] = ErrBadHandshake /\ cClosed[c] /\ cpc[c] = "c_done"
    /\ dialRet[c] = ErrBadHandshake => cerr[c] # "nil"
    /\ dialRet[c] = "chan" =>
         /\ cerr[c] = "nil" /\ cKey[c] = ClientKeyId(c)
         /\ Len(cPeer[c]) = KeyLen
         /\ IsPrefix(protocolHandshake \o PubKey(cKey[c]), cOut[c])

C5_Witness ==
  \E c \in Conns :
    /\ ckind[c] = "dial" /\ cerr[c] = "ErrUnexpectedEOF"
    /\ dialRet[c] = ErrBadHandshake /\ cClosed[c]

\* The server rejected the handshake and a byte of its rejection token is
\* on the wire: what it wrote ends with a non-empty part of the token.
RejectionWritten(c) ==
  /\ sFailAt[c] # "none"
  /\ \E k \in 0..KeyLen, j \in 1..Len(Rejection) :
       sOut[c] = Take(PubKey(ServerKeyId(c)), k) \o Take(Rejection, j)

\* C6: a client that called Dial and whose server rejects the handshake,
\* writing the rejection token, never has an established channel and, once
\* Dial has returned, has ErrBadHandshake; and the public key a client
\* accepts is never the rejection token or a part of it: it is the key the
\* server generated.
C6_RejectedDial ==
  \A c \in Conns : ckind[c] = "dial" =>
    /\ RejectionWritten(c) =>
         /\ ~ClientEstablished(c)
         /\ cpc[c] = "c_done" => dialRet[c] = ErrBadHandshake
    /\ cPeer[c] # <<>> =>
         /\ cPeer[c] = PubKey(ServerKeyId(c))
         /\ \A i \in 1..Len(cPeer[c]), j \in 1..Len(Rejection) :
              cPeer[c][i] # Rejection[j]

C6_Witness ==
  \E c \in Conns :
    /\ ckind[c] = "dial" /\ RejectionWritten(c) /\ sOut[c] = Rejection
    /\ serr[c] = ErrBadHandshake
    /\ cerr[c] = "ErrUnexpectedEOF" /\ dialRet[c] = ErrBadHandshake

\* C7 (as stated): whenever the other end closed the transport before a
\* complete token or key was received, the handshake in progress (the
\* server's, or the client's under Dial) returns io.ErrUnexpectedEOF to its
\* caller.
C7_ShortStreamIsUnexpectedEOF ==
  [][\A c \in Conns :
       /\ (spc[c] = "s_token" /\ spc'[c] # "s_token" /\ cClosed[c]
             /\ ~broken[c] /\ Len(c2s[c]) < Len(protocolHandshake))
            => serr'[c] = "ErrUnexpectedEOF"
       /\ (spc[c] = "s_recvKey" /\ spc'[c] # "s_recvKey" /\ cClosed[c]
             /\ ~broken[c] /\ Len(c2s[c]) < KeyLen)
            => serr'[c] = "ErrUnexpectedEOF"
       /\ (cpc[c] = "c_recvKey" /\ cpc'[c] # "c_recvKey" /\ sClosed[c]
             /\ ~broken[c] /\ Len(s2c[c]) < KeyLen)
            => cerr'[c] = "ErrUnexpectedEOF"]_vars

\* C8: Serve returns only in a step in which Accept fails, that step
\* touches no connection, and what Serve returns is that Accept's error;
\* a successful Accept leaves Serve in its loop; and no step of a
\* connection's handler or peer changes where Serve is.
C8_ServeReturnsAcceptError ==
  /\ [](servePc = "returned" => acceptErr # "nil" /\ serveErr = acceptErr)
  /\ [][/\ servePc' # servePc =>
             /\ servePc = "accept" /\ servePc' = "returned"
             /\ acceptErr' # "nil" /\ acceptErr' = lst /\ serveErr' = acceptErr'
             /\ UNCHANGED <<clientVars, serverVars, wireVars>>
        /\ (\E c \in Conns : spc[c] = "s_none" /\ spc'[c] # "s_none") =>
             /\ acceptErr' = "nil" /\ servePc' = "accept" /\ serveErr' = "nil"
        /\ servePc = "returned" => UNCHANGED <<servePc, serveErr, acceptErr>>
       ]_vars

C8_Witness ==
  /\ servePc = "returned" /\ serveErr = "acceptFault" /\ acceptErr = "acceptFault"
  /\ \E c \in Conns : spc[c] = "s_done" /\ serr[c] = ErrBadHandshake

\* Everything the program and the peer hold for one connection.
ConnState(c) ==
  <<ckind[c], cpc[c], cerr[c], dialRet[c], cKey[c], cPeer[c], cSent[c],
    cGot[c], rGot[c], spc[c], serr[c], sKey[c], sPeer[c], sFailAt[c],
    sBuf[c], sReadLog[c], sWriteLog[c], c2s[c], s2c[c], cOut[c], sOut[c],
    cClosed[c], sClosed[c], broken[c]>>

\* Connection c waits to be accepted and is the oldest that does.
NextToAccept(c) ==
  /\ ckind[c] # "none" /\ spc[c] = "s_none"
  /\ \A d \in Conns : d < c => spc[d] # "s_none"

\* C9: the connections Serve accepts are handled independently: a step
\* that changes one connection's state (a failure, a close, a read that
\* unblocks) changes no other connection's state and does not move the
\* accept loop; and whatever state the other handlers are in (failed,
\* blocked in a read, echoing), the next waiting connection can be
\* accepted.
C9_IndependentConnections ==
  /\ [](\A c \in Conns :
          (servePc = "accept" /\ lst = "open" /\ NextToAccept(c))
            => ENABLED ServeAccept(c))
  /\ [][\A a \in Conns :
          ConnState(a)' # ConnState(a) =>
            /\ \A b \in Conns \ {a} : ConnState(b)' = ConnState(b)
            /\ UNCHANGED <<lst, servePc, serveErr>>]_vars

C9_Witness ==
  \E a, b \in Conns :
    /\ a < b
    /\ ckind[a] = "raw" /\ cpc[a] = "r_send" /\ spc[a] = "s_token"
    /\ ckind[b] = "dial" /\ cSent[b] = 1 /\ cGot[b] = <<Plain(1)>>
    /\ sWriteLog[b] = <<Plain(1)>>

\* C10: after a successful server-side handshake the handler alternates
\* one read and one write of the plaintext it read: the plaintexts written
\* are a prefix of those read and at most one behind, exactly one behind
\* when a write is due; the first read or write that fails ends the loop,
\* and from then on the handler reads and writes nothing and closes.
C10_EchoLoop ==
  /\ [](\A c \in Conns :
          /\ IsPrefix(sWriteLog[c], sReadLog[c])
          /\ Len(sReadLog[c]) - Len(sWriteLog[c]) <= 1
          /\ spc[c] = "s_write" => Len(sReadLog[c]) = Len(sWriteLog[c]) + 1
          /\ spc[c] = "s_read" => sReadLog[c] = sWriteLog[c]
          /\ sReadLog[c] # <<>> => sFailAt[c] = "none" /\ ServerEstablished(c))
  /\ [][\A c \in Conns :
          /\ (spc[c] \in {"s_read", "s_write"} /\ spc'[c] # spc[c]) =>
               \/ /\ spc[c] = "s_read" /\ spc'[c] = "s_write"
                  /\ Len(sReadLog'[c]) = Len(sReadLog[c]) + 1
               \/ /\ spc[c] = "s_write" /\ spc'[c] = "s_read"
                  /\ sWriteLog'[c] = sReadLog[c]
               \/ /\ spc'[c] = "s_close"
                  /\ sReadLog'[c] = sReadLog[c]
          /\ spc[c] \in {"s_close", "s_done"} =>
               /\ spc'[c] \in {"s_close", "s_done"}
               /\ sReadLog'[c] = sReadLog[c] /\ sWriteLog'[c] = sWriteLog[c]
               /\ sOut'[c] = sOut[c] \/ sFailAt[c] # "none"
               /\ Len(c2s'[c]) >= Len(c2s[c]) \/ spc'[c] = "s_done"]_vars

C10_Witness ==
  \E c \in Conns :
    /\ sWriteLog[c] = <<Plain(1), Plain(2)>> /\ sReadLog[c] = sWriteLog[c]
    /\ spc[c] = "s_done"

\* The Write calls that put a frame on the stream, in order.
FramedWrites == SelectSeq(pWrites, LAMBDA x : x.bytes # <<>>)

\* C12: on a SecureWriter/SecureReader pair with corresponding keys on one
\* stream, every Write of a plaintext of 1..MaxMsgLen bytes on an open
\* stream reports len(p) bytes and no error, and, after any earlier writes
\* and reads, each Read that finds a frame in the stream returns with no
\* error exactly the plaintext of the frame whose turn it is, same length
\* and same bytes.
C12_RoundTrip ==
  /\ \A i \in 1..Len(pWrites) :
       (pWrites[i].p # <<>> /\ Len(pWrites[i].p) <= MaxMsgLen
          /\ pWrites[i].err # "ErrClosedPipe")
         => pWrites[i].err = "nil" /\ pWrites[i].n = Len(pWrites[i].p)
  /\ pHarm = "none" =>
       \A i \in 1..Len(pReads) :
         pReads[i].had # <<>> =>
           /\ i <= Len(FramedWrites)
           /\ pReads[i].err = "nil"
           /\ pReads[i].p = FramedWrites[i].p
           /\ pReads[i].n = Len(FramedWrites[i].p)

C12_Witness ==
  /\ pHarm = "none" /\ Len(pReads) = 2
  /\ pReads[1].err = "nil" /\ pReads[1].p = PipePlain(1)
  /\ pReads[2].err = "nil" /\ pReads[2].p = PipePlain(MaxMsgLen)

\* The nonce field of a frame.
NonceOf(frame) == SubSeq(frame, headerLength + 1, headerLength + nonceLength)

\* C13: over the writes made with one key pair, by one SecureWriter or by
\* two built on the same keys, no two frames carry the same nonce, and two
\* frames are different byte sequences also when their plaintexts are
\* equal.
C13_NonceFreshness ==
  \A i, j \in 1..Len(FramedWrites) :
    i < j =>
      /\ NonceOf(FramedWrites[i].bytes) # NonceOf(FramedWrites[j].bytes)
      /\ FramedWrites[i].bytes # FramedWrites[j].bytes

C13_Witness ==
  /\ Len(FramedWrites) = 2
  /\ FramedWrites[1].p = PipePlain(2) /\ FramedWrites[2].p = PipePlain(2)
  /\ FramedWrites[1].w = 1 /\ FramedWrites[2].w = 2
  /\ FramedWrites[1].bytes # FramedWrites[2].bytes

\* What a direction of a Dial connection carried after the handshake.
AfterHandshake(c) ==
  <<Drop(cOut[c], Len(protocolHandshake) + KeyLen), Drop(sOut[c], KeyLen)>>

\* The bytes w of one direction are not the plaintext p, and neither is
\* the encrypted part of the first frame in them.
Concealed(w, p) ==
  /\ w # p
  /\ Len(w) >= headerLength + nonceLength + Len(p) =>
       SubSeq(w, headerLength + nonceLength + 1,
              headerLength + nonceLength + Len(p)) # p

\* C11: on a connection between Dial and Serve whose transport does not
\* fail, a client that has written its i-th plaintext p and reads gets
\* exactly p back as its i-th message, eventually unless it closes the
\* channel itself; its reads and writes never fail; and what either
\* direction carries is never p.
C11_EndToEndEcho ==
  /\ [](\A c \in Conns : ckind[c] = "dial" =>
          /\ cpc[c] # "c_err"
          /\ \A i \in 1..Len(cGot[c]) : cGot[c][i] = Plain(i)
          /\ cSent[c] >= 1 =>
               /\ Concealed(AfterHandshake(c)[1], Plain(1))
               /\ Concealed(AfterHandshake(c)[2], Plain(1)))
  /\ \A c \in Conns, i \in 1..MaxMsgs :
       (ckind[c] = "dial" /\ cSent[c] >= i)
         ~> ((Len(cGot[c]) >= i /\ cGot[c][i] = Plain(i)) \/ cpc[c] = "c_done")

C11_Witness ==
  \E c \in Conns :
    /\ ckind[c] = "dial" /\ cpc[c] = "c_open"
    /\ cSent[c] = MaxMsgs /\ Len(cGot[c]) = MaxMsgs
    /\ cGot[c][1] = Plain(1) /\ cGot[c][MaxMsgs] = Plain(MaxMsgs)

\* The Read that met the frame of the last Write: the one whose turn it
\* was, when it found bytes (or, for a cut, the end) in the stream.
LastFrameRead == pReads[Len(FramedWrites)]

\* C14: a Read of a frame that differs from a valid one by one flipped bit
\* at any position of its ciphertext and tag fails with ErrDecryptionError,
\* not with a truncation or framing error, and returns no plaintext byte.
C14_TamperDetected ==
  (pHarm = "flip" /\ Len(pReads) >= Len(FramedWrites)
     /\ LastFrameRead.had # <<>>) =>
    /\ LastFrameRead.err = "ErrDecryptionError"
    /\ LastFrameRead.p = <<>> /\ LastFrameRead.n = 0

C14_Witness ==
  /\ pHarm = "flip" /\ Len(pReads) = 2 /\ Len(FramedWrites) = 2
  /\ pReads[1].err = "nil"
  /\ FramedWrites[2].p = PipePlain(2)
  /\ LastFrameRead.had[headerLength + nonceLength + 1]
       # FramedWrites[2].bytes[headerLength + nonceLength + 1]
  /\ LastFrameRead.err = "ErrDecryptionError"

\* C15: a Read fed the first k bytes of a valid frame of L bytes, for any
\* 0 <= k < L, and then the end of the stream fails with
\* io.ErrUnexpectedEOF and returns no plaintext: a frame that delivers fewer
\* bytes than announced is never taken for a shorter message.
C15_TruncationDetected ==
  (pHarm = "cut" /\ Len(pReads) >= Len(FramedWrites)) =>
    /\ LastFrameRead.err = "ErrUnexpectedEOF"
    /\ LastFrameRead.p = <<>> /\ LastFrameRead.n = 0

C15_Witness ==
  /\ pHarm = "cut" /\ Len(pReads) = Len(FramedWrites)
  /\ Len(LastFrameRead.had) = headerLength + 8
  /\ FramedWrites[Len(FramedWrites)].p = PipePlain(MaxMsgLen)
  /\ LastFrameRead.err = "ErrUnexpectedEOF"

\* C16: a Write of a plaintext longer than MaxMsgLen returns 0 and
\* ErrMessageTooLarge and hands no byte to the stream; a Write of exactly
\* MaxMsgLen bytes on an open stream returns MaxMsgLen and no error, and
\* the Read that meets its frame returns those MaxMsgLen bytes.
C16_OversizeRejected ==
  /\ \A i \in 1..Len(pWrites) :
       /\ Len(pWrites[i].p) > MaxMsgLen =>
            /\ pWrites[i].n = 0 /\ pWrites[i].err = "ErrMessageTooLarge"
            /\ pWrites[i].bytes = <<>>
       /\ (Len(pWrites[i].p) = MaxMsgLen /\ pWrites[i].err # "ErrClosedPipe") =>
            /\ pWrites[i].n = MaxMsgLen /\ pWrites[i].err = "nil"
            /\ Len(pWrites[i].bytes) = headerLength + nonceLength + MaxMsgLen + tagLength
  /\ pHarm = "none" =>
       \A i \in 1..Len(pReads) :
         (pReads[i].had # <<>> /\ i <= Len(FramedWrites)
            /\ Len(FramedWrites[i].p) = MaxMsgLen)
           => pReads[i].err = "nil" /\ pReads[i].p = FramedWrites[i].p

C16_Witness ==
  /\ Len(pWrites) = 2
  /\ pWrites[1].p = PipePlain(MaxMsgLen + 1) /\ pWrites[1].err = "ErrMessageTooLarge"
  /\ pWrites[2].p = PipePlain(MaxMsgLen) /\ pWrites[2].err = "nil"
  /\ Len(pReads) = 1 /\ pReads[1].p = PipePlain(MaxMsgLen)

\* The bytes of a frame that carries no plaintext: header, nonce and tag.
EmptyFrameLen == headerLength + nonceLength + tagLength

\* C17 (as stated): a Write of the empty plaintext returns (0, nil) and
\* puts no byte on the stream.
C17_EmptyWriteSendsNothing ==
  \A i \in 1..Len(pWrites) :
    (pWrites[i].p = <<>> /\ pWrites[i].err # "ErrClosedPipe") =>
      /\ pWrites[i].n = 0 /\ pWrites[i].err = "nil"
      /\ pWrites[i].bytes = <<>>

\* C17 (amended): a Write of the empty plaintext on an open stream returns
\* (0, nil) and puts one frame on the stream, of header, nonce and tag and
\* no ciphertext byte, whose header announces nonce and tag; the reader
\* returns it as a message of 0 bytes.
C17_EmptyWriteSendsEmptyFrame ==
  /\ \A i \in 1..Len(pWrites) :
       (pWrites[i].p = <<>> /\ pWrites[i].err # "ErrClosedPipe") =>
         /\ pWrites[i].n = 0 /\ pWrites[i].err = "nil"
         /\ Len(pWrites[i].bytes) = EmptyFrameLen
         /\ HeaderVal(Take(pWrites[i].bytes, headerLength)) = nonceLength + tagLength
  /\ pHarm = "none" =>
       \A i \in 1..Len(pReads) :
         (pReads[i].had # <<>> /\ i <= Len(FramedWrites) /\ FramedWrites[i].p = <<>>)
           => pReads[i].err = "nil" /\ pReads[i].n = 0

C17_Witness ==
  /\ Len(pWrites) = 2 /\ pWrites[1].p = PipePlain(1) /\ pWrites[2].p = <<>>
  /\ pWrites[2].n = 0 /\ pWrites[2].err = "nil"
  /\ Len(pWrites[2].bytes) = EmptyFrameLen
  /\ Len(pReads) = 2 /\ pReads[2].err = "nil" /\ pReads[2].n = 0

\* C18: when the only operation on the SecureWriter was a Write of the
\* empty plaintext that returned (0, nil), the next Read of the paired
\* SecureReader on the same in-memory stream returns 0 bytes and no error.
C18_ReadAfterEmptyWrite ==
  (pKind = "buffer" /\ pWrites # <<>> /\ pReads # <<>>
     /\ pWrites[1].p = <<>> /\ pWrites[1].n = 0 /\ pWrites[1].err = "nil"
     /\ pReads[1].had = pWrites[1].bytes) =>
    pReads[1].n = 0 /\ pReads[1].err = "nil"

C18_Witness ==
  /\ pKind = "buffer" /\ Len(pWrites) = 1 /\ Len(pReads) = 1
  /\ pWrites[1].p = <<>> /\ pWrites[1].n = 0 /\ pWrites[1].err = "nil"
  /\ pReads[1].had = pWrites[1].bytes
  /\ pReads[1].n = 0 /\ pReads[1].err = "nil"

\* C19 (as stated): a Read that meets the end of the stream with no byte
\* of a header read, before the first message or between two, reports the
\* ordinary end of stream.
C19_CleanEndIsEOF ==
  \A i \in 1..Len(pReads) : pReads[i].had = <<>> => pReads[i].err = "EOF"

\* C19 (amended): a Read that meets the end of the stream with no byte of
\* a header read, before the first message or between two, reports
\* io.ErrUnexpectedEOF, as for a stream that ends inside a header or a
\* frame, and returns no plaintext; no Read reports the ordinary end of
\* stream.
C19_CleanEndIsUnexpectedEOF ==
  \A i \in 1..Len(pReads) :
    /\ pReads[i].err # "EOF"
    /\ pReads[i].had = <<>> =>
         pReads[i].err = "ErrUnexpectedEOF" /\ pReads[i].n = 0

C19_Witness ==
  /\ pHarm = "none" /\ Len(pReads) = 2
  /\ pReads[1].err = "nil" /\ pReads[1].p = PipePlain(1)
  /\ pReads[2].had = <<>> /\ pReads[2].err = "ErrUnexpectedEOF"

\* C20: reading from a SecureReader whose stream the writing side closed
\* before any frame byte was written fails with io.ErrUnexpectedEOF at the
\* first Read and delivers no plaintext byte.
C20_ClosedBeforeAnyFrame ==
  (pKind = "pipe" /\ FramedWrites = <<>> /\ pReads # <<>>) =>
    /\ pClosed
    /\ Len(pReads) = 1
    /\ pReads[1].err = "ErrUnexpectedEOF" /\ pReads[1].n = 0 /\ pReads[1].p = <<>>

C20_Witness ==
  /\ pKind = "pipe" /\ pClosed /\ pWrites = <<>>
  /\ Len(pReads) = 1 /\ pReads[1].had = <<>>
  /\ pReads[1].err = "ErrUnexpectedEOF" /\ pReads[1].n = 0

\* The plaintext p appears, as it is, somewhere in the bytes w.
Occurs(p, w) ==
  \E k \in 0..(Len(w) - Len(p)) : SubSeq(w, k + 1, k + Len(p)) = p

\* What the client sent, or the peer got, after the token and the client's
\* 32-byte public key.
AfterClientKey(w) == Drop(w, Len(protocolHandshake) + KeyLen)

\* The server side of c is a stand-in server of the tests.
StandIn(c) == spc[c] \in {"f_write", "f_read", "f_close", "f_done"}

\* C21: against a peer that ignores the token and supplies at least 32
\* bytes, on a transport that does not fail, Dial returns a channel unless
\* the peer closes first (it fails only on a closed connection), taking the
\* first 32 bytes supplied as the peer's key; and for every non-empty
\* plaintext p written on that channel, what the client sends and what the
\* peer receives after the client's 32-byte public key is not p and has p
\* nowhere in it.
C21_NoPlaintextToStandIn ==
  /\ [](\A c \in Conns : (ckind[c] = "dial" /\ StandIn(c)) =>
          /\ (dialRet[c] = ErrBadHandshake /\ Len(sOut[c]) >= KeyLen) => sClosed[c]
          /\ ClientEstablished(c) =>
               /\ cPeer[c] = Take(sOut[c], KeyLen)
               /\ IsPrefix(protocolHandshake \o PubKey(ClientKeyId(c)), cOut[c])
          /\ IsPrefix(fGot[c], cOut[c])
          /\ \A i \in 1..cSent[c] :
               /\ AfterClientKey(fGot[c]) # Plain(i)
               /\ ~Occurs(Plain(i), AfterClientKey(fGot[c]))
               /\ ~Occurs(Plain(i), AfterClientKey(cOut[c])))
  /\ \A c \in Conns :
       (ckind[c] = "dial" /\ Len(sOut[c]) >= KeyLen)
         ~> (ClientEstablished(c) \/ sClosed[c])

C21_Witness ==
  \E c \in Conns :
    /\ ckind[c] = "dial" /\ StandIn(c) /\ ClientEstablished(c)
    /\ cPeer[c] = ZeroBuf(KeyLen)
    /\ cSent[c] = 1 /\ fGot[c] = cOut[c]
    /\ Len(AfterClientKey(fGot[c])) = headerLength + nonceLength + 1 + tagLength

\* The handler of c is in a write on the connection.
ServerWrites(c) == spc[c] \in {"s_sendKey", "s_reject", "s_write"}

\* The errors of a read or a write on a transport that was closed or failed.
StreamErrs == {"ErrUnexpectedEOF", "transport"}

\* C22: when the peer closes the connection or the connection fails while
\* its handler waits in a read, the read fails (in the handshake with the
\* end-of-stream or the transport error, in the echo loop ending the loop),
\* and a write on a connection that failed fails; from then on the handler
\* eventually terminates; and a handler that has terminated, after a failed
\* handshake or after the echo loop, has closed the connection.
C22_CloseCancels ==
  /\ [](\A c \in Conns : spc[c] = "s_done" => sClosed[c])
  /\ [][\A c \in Conns :
          /\ (ServerWaits(c) /\ (cClosed[c] \/ broken[c]) /\ spc'[c] # spc[c]) =>
               /\ spc'[c] = (IF spc[c] = "s_read" THEN "s_close" ELSE "s_reject")
               /\ spc[c] # "s_read" => serr'[c] \in StreamErrs
          /\ (ServerWrites(c) /\ broken[c] /\ spc'[c] # spc[c]) =>
               /\ sOut'[c] = sOut[c]
               /\ spc'[c] = (IF spc[c] = "s_sendKey" THEN "s_reject" ELSE "s_close")]_vars
  /\ \A c \in Conns :
       (spc[c] \notin {"s_none", "s_done"} /\ (cClosed[c] \/ broken[c]))
         ~> (spc[c] = "s_done" /\ sClosed[c])

C22_Witness ==
  \E c \in Conns :
    /\ spc[c] = "s_done" /\ sClosed[c] /\ broken[c] /\ ~cClosed[c]
    /\ sFailAt[c] = "keyread" /\ serr[c] = "transport"

\* The state of the server-side handshake of c: that of serverHandshake
\* while it runs, and what it returned from then on.
ServerHs(c) ==
  IF spc[c] = "s_none" THEN "NotStarted"
  ELSE IF sFailAt[c] # "none" THEN "Failed"
  ELSE IF spc[c] = "s_token" THEN "AwaitingToken"
  ELSE IF spc[c] \in {"s_sendKey", "s_recvKey"} THEN "AwaitingPeerKey"
  ELSE "Established"

\* The state of the client-side handshake of c: that of clientHandshake
\* under Dial while it runs, and what it returned from then on.
ClientHs(c) ==
  IF ckind[c] # "dial" \/ dialRet[c] = "connErr" THEN "NotStarted"
  ELSE IF cerr[c] # "nil" THEN "Failed"
  ELSE IF cpc[c] = "c_token" THEN "AwaitingToken"
  ELSE IF cpc[c] \in {"c_recvKey", "c_sendKey"} THEN "AwaitingPeerKey"
  ELSE "Established"

\* The moves of a handshake state.
HsMove(a, b) ==
  \/ b = a
  \/ a = "NotStarted" /\ b = "AwaitingToken"
  \/ a = "AwaitingToken" /\ b \in {"AwaitingPeerKey", "Failed"}
  \/ a = "AwaitingPeerKey" /\ b \in {"Established", "Failed"}

\* C23: on each side the handshake state moves only from AwaitingToken to
\* AwaitingPeerKey to Established, or from one of the first two to Failed;
\* it never goes back or from AwaitingToken to Established, and does not
\* change once Established or Failed; the server becomes Established in the
\* step in which it takes 32 bytes from the connection as the peer's key,
\* and an Established side holds a peer key of 32 bytes and its own key
\* pair.
C23_HandshakeStateMoves ==
  /\ [](\A c \in Conns :
          /\ ServerHs(c) = "Established" => Len(sPeer[c]) = KeyLen /\ sKey[c] # 0
          /\ ClientHs(c) = "Established" => Len(cPeer[c]) = KeyLen /\ cKey[c] # 0
          /\ cpc[c] = "c_sendKey" => Len(cPeer[c]) = KeyLen)
  /\ [][\A c \in Conns :
          /\ HsMove(ServerHs(c), ServerHs(c)')
          /\ HsMove(ClientHs(c), ClientHs(c)')
          /\ (ServerHs(c) # "Established" /\ ServerHs(c)' = "Established") =>
               /\ Len(c2s[c]) >= KeyLen
               /\ sPeer'[c] = Take(c2s[c], KeyLen)
               /\ c2s'[c] = Drop(c2s[c], KeyLen)
          /\ (cpc[c] = "c_recvKey" /\ cpc'[c] = "c_sendKey") =>
               /\ Len(s2c[c]) >= KeyLen
               /\ cPeer'[c] = Take(s2c[c], KeyLen)
               /\ s2c'[c] = Drop(s2c[c], KeyLen)]_vars

C23_Witness ==
  \E c \in Conns :
    /\ ServerHs(c) = "Established" /\ spc[c] = "s_done"
    /\ ClientHs(c) = "Established" /\ cpc[c] = "c_done"
    /\ sReadLog[c] # <<>>

\* C24 (as stated): DecodeFile never returns a pattern together with an
\* error, and its errors have a fixed precedence: the open error for a file
\* that does not open; otherwise io.ErrUnexpectedEOF for a file shorter
\* than the header readHeader reads; otherwise ErrInvalidFileFormat for a
\* format field that is not the zero-padded marker; otherwise
\* ErrInsufficientData for a declared data length that, added to the 14
\* header bytes, exceeds the size of the file.
C24_ErrorPrecedence ==
  dpc = "returned" =>
    /\ dRet.p = <<>> \/ dRet.err = "nil"
    /\ ~dFile.opens => dRet.err = "ErrNotExist"
    /\ (dFile.opens /\ dFile.stats) =>
         IF Len(dFile.bytes) < tracksOffset THEN dRet.err = "ErrUnexpectedEOF"
         ELSE IF Take(dFile.bytes, formatFieldBytes) # spliceMarker
           THEN dRet.err = ErrInvalidFileFormat
         ELSE IF headerBytes + dFile.bytes[headerBytes] > Len(dFile.bytes)
           THEN dRet.err = ErrInsufficientData
         ELSE TRUE

\* C25 (as stated): with a conforming client on a transport that does not
\* fail, the token read of the server-side handshake accepts the token
\* however the transport splits its bytes across the underlying reads: when
\* the read returns, on a connection that is up and that the client has not
\* closed, the handshake goes on to send the server's key.
C25_SegmentationIndependent ==
  [][\A c \in Conns :
       (ckind[c] = "dial" /\ ~broken[c] /\ ~cClosed[c]
          /\ spc[c] = "s_token" /\ spc'[c] # "s_token")
         => (spc'[c] = "s_sendKey" /\ serr'[c] = "nil")]_vars

\* What a side wrote holds no byte of a message frame: the server wrote a
\* part of its key and a part of the rejection, the client a part of the
\* token and of its key.
NoServerFrame(c) ==
  \E k \in 0..KeyLen, j \in 0..Len(Rejection) :
    sOut[c] = Take(PubKey(ServerKeyId(c)), k) \o Take(Rejection, j)

NoClientFrame(c) ==
  IsPrefix(cOut[c], protocolHandshake \o PubKey(ClientKeyId(c)))

\* C26: a side reads or writes message frames only once its handshake is
\* Established: the handler is in its echo loop, and has read or echoed a
\* plaintext, only with a handshake that returned the keys, and the client
\* has written or read a message only on a channel Dial returned; until a
\* side is Established it has put no frame byte on the wire; and a handler
\* whose handshake Failed never enters the echo loop, never reads or writes
\* a frame, and takes nothing more off the connection.
C26_FramesOnlyWhenEstablished ==
  /\ [](\A c \in Conns :
          /\ (spc[c] \in {"s_read", "s_write"} \/ sReadLog[c] # <<>>
                \/ sWriteLog[c] # <<>> \/ sBuf[c] # <<>>)
               => (ServerHs(c) = "Established" /\ ServerEstablished(c))
          /\ ServerHs(c) # "Established" => NoServerFrame(c)
          /\ ServerHs(c) = "Failed" =>
               /\ spc[c] \in {"s_reject", "s_close", "s_done"}
               /\ ~ServerEstablished(c)
          /\ ckind[c] = "dial" =>
               /\ (cSent[c] > 0 \/ cGot[c] # <<>>)
                    => (ClientHs(c) = "Established" /\ ClientEstablished(c))
               /\ ClientHs(c) # "Established" => NoClientFrame(c))
  /\ [][\A c \in Conns :
          /\ (sReadLog'[c] # sReadLog[c] \/ sWriteLog'[c] # sWriteLog[c])
               => ServerHs(c) = "Established"
          /\ (cSent'[c] # cSent[c] \/ cGot'[c] # cGot[c])
               => ClientHs(c) = "Established"
          /\ ServerHs(c) = "Failed" =>
               /\ spc'[c] \notin {"s_read", "s_write"}
               /\ Len(c2s'[c]) >= Len(c2s[c]) \/ spc'[c] = "s_done"]_vars

C26_Witness ==
  \E c \in Conns :
    /\ ckind[c] = "dial" /\ cOut[c] = protocolHandshake
    /\ ServerHs(c) = "Failed" /\ sFailAt[c] = "token" /\ spc[c] = "s_done"
    /\ sReadLog[c] = <<>> /\ sWriteLog[c] = <<>>
    /\ sOut[c] = Rejection
    /\ ClientHs(c) = "Failed"

\* The server has sent the first byte of its public key.
ServerKeySent(c) == sOut[c] # <<>> /\ sOut[c][1] = PubKey(ServerKeyId(c))[1]

\* serverHandshake has read a token equal to protocolHandshake: the peer
\* wrote it first, and the server is past the read and the comparison.
TokenAccepted(c) ==
  /\ spc[c] \notin {"s_none", "s_token"} /\ sFailAt[c] # "token"
  /\ IsPrefix(protocolHandshake, cOut[c])

\* C27: the server is Established only when the client has written all 32
\* bytes of its public key, after the token, and holds those bytes as the
\* client's key; the server sends its public key, from the first byte on,
\* only when it has read a token equal to protocolHandshake, and in the
\* step that sends it the token was already accepted; a client that is
\* Established has a server that accepted the token, but that server need
\* not be Established: it can still wait for the client's key, or fail.
C27_HandshakeOrder ==
  /\ [](\A c \in Conns :
          /\ ServerHs(c) = "Established" =>
               /\ Len(cOut[c]) >= Len(protocolHandshake) + KeyLen
               /\ sPeer[c] = SubSeq(cOut[c], Len(protocolHandshake) + 1,
                                    Len(protocolHandshake) + KeyLen)
               /\ ckind[c] = "dial" => sPeer[c] = PubKey(ClientKeyId(c))
          /\ ServerKeySent(c) => TokenAccepted(c)
          /\ (ckind[c] = "dial" /\ ClientEstablished(c)) =>
               /\ TokenAccepted(c)
               /\ ServerHs(c) \in {"AwaitingPeerKey", "Established", "Failed"})
  /\ [][\A c \in Conns :
          (~ServerKeySent(c) /\ ServerKeySent(c)') =>
            (spc[c] = "s_sendKey" /\ TokenAccepted(c))]_vars

C27_Witness ==
  \E c \in Conns :
    /\ ckind[c] = "dial" /\ ClientEstablished(c) /\ cpc[c] = "c_open"
    /\ cOut[c] = protocolHandshake \o PubKey(ClientKeyId(c))
    /\ ServerHs(c) = "Failed" /\ sFailAt[c] = "keyread"
    /\ ~ServerEstablished(c)

====
